---- MODULE Spec2Model ----
(***************************************************************************)
(* Single-elimination tournament engine of the Valorant Discord bot:       *)
(* score rule (MatchService.isValidValorantScore / getWinner), bracket     *)
(* generation (TournamentService.generateBracket), the registry            *)
(* operations (create, startRegistration, registerTeam, startTournament),  *)
(* match reporting with winner propagation (reportMatchResult) and         *)
(* progress detection (checkTournamentProgress).                           *)
(*                                                                         *)
(* Modelling conventions                                                   *)
(*  - null / undefined ids and scores are Null (-1); real ids are >= 1 and *)
(*    stored scores are >= 0.  An undefined team name is NoName.           *)
(*  - generateTeamId / generateMatchId append a random base-36 suffix to   *)
(*    the clock reading; the model takes the ids of one tournament to be   *)
(*    pairwise different (TeamIdBase + k, MatchIdBase + k).                *)
(*  - generateId is the clock reading alone; Date.now() is an input of     *)
(*    the create action.                                                   *)
(*  - Array.sort with the random comparator of generateBracket returns a   *)
(*    permutation of its input; which one is an input of startTournament.  *)
(*  - Scores arrive as integers (Discord integer options), so the          *)
(*    Number.isInteger test of the score rule is always passed.            *)
(*  - Spec, SpecSetup and SpecCreate run every call to its end before the  *)
(*    next one starts; SpecOverlap suspends create and registerTeam at the *)
(*    await of their storage write and lets other calls run meanwhile.     *)
(*  - SpecDelete adds delete, SpecFailure lets fs.writeFile fail and       *)
(*    recover, SpecRestart adds the restart of the process (initialize     *)
(*    over the saved files); a timestamp field holds the type of its       *)
(*    value (Date, string, null), not its instant.                         *)
(*  - SpecVerify and SpecVerifyFair are RiotApiService.verifyRiotId and    *)
(*    validateConnection over makeRequest; the status of every response    *)
(*    is an input.                                                         *)
(*  - SpecReports suspends reportMatchResult at its two awaits, after the  *)
(*    memory has changed, and lets other reports run meanwhile.            *)
(*  - SpecPlayers is PlayerDataService under the /player commands;         *)
(*    register and verify are suspended at their verification await and    *)
(*    the outcome of the verification is an input of the resumed command.  *)
(***************************************************************************)
EXTENDS Integers, Sequences, FiniteSets, TLC

VARIABLES
  tournaments,   \* TournamentService.tournaments: id -> Tournament
  stored,        \* dataService file of the guild: the snapshot last saved
  lastResult,    \* the last operation called and its outcome (Ok or the error)
  progress,      \* TournamentStatus returned by the last checkTournamentProgress
  rounds1,       \* score rule harness: first argument
  rounds2,       \* score rule harness: second argument
  scoreOut,      \* score rule harness: results of the two pure functions
  inflight,      \* calls suspended at the await of their storage write
  writable,      \* whether fs.writeFile succeeds at present
  verification,  \* RiotApiService: the verifyRiotId call under way or returned last
  players,       \* PlayerDataService.players: discordId -> profile
  guildPlayers,  \* PlayerDataService.guildPlayers: guildId -> discordId -> profile
  registering    \* player register commands suspended at the verification await

vars == <<tournaments, stored, lastResult, progress, rounds1, rounds2, scoreOut,
          inflight, writable, verification, players, guildPlayers, registering>>

----------------------------------------------------------------------------
(* Bounds of the model *)

\* largest round count the report command accepts (setMaxValue)
MaxScore == 50
\* number of distinct Date.now() readings the create action may observe
MaxClock == 1

----------------------------------------------------------------------------
(* Values *)

Null == -1
NoName == "undefined"
TeamIdBase == 100
MatchIdBase == 200

\* choices of the `teams` option of /tournament create
TeamCountChoices == {4, 8, 16}

TheGuild == "guild"
TournamentNames == {"Cup"}
TeamNames == <<"A", "B", "C", "D", "E", "F", "G", "H",
               "I", "J", "K", "L", "M", "N", "O", "P">>

Max(a, b) == IF a >= b THEN a ELSE b
Min(a, b) == IF a <= b THEN a ELSE b

RECURSIVE Pow2(_)
Pow2(n) == IF n <= 0 THEN 1 ELSE 2 * Pow2(n - 1)

Log2_Half(n) == n \div 2

\* Math.log2 on the team counts the command layer lets through (powers of two)
RECURSIVE Log2(_)
Log2(n) == IF n <= 1 THEN 0 ELSE 1 + Log2(n \div 2)

CeilHalf_Floor(n) == n \div 2

\* Math.ceil(matchNumber / 2)
CeilHalf(n) == (n + 1) \div 2

\* Array.prototype.find by id: the position of the first element of s whose
\* id is the given one, 0 when there is none (find returns undefined)
FindById(s, id) ==
  IF \E i \in DOMAIN s : s[i].id = id
    THEN CHOOSE i \in DOMAIN s : s[i].id = id /\ \A j \in 1..(i-1) : s[j].id # id
    ELSE 0

----------------------------------------------------------------------------
(* Scoring rule: matchService.ts 26-62 *)

isValidValorantScore_LowerLe12(r1, r2) ==
  IF r1 < 0 \/ r2 < 0 THEN FALSE
  ELSE IF r1 = r2 THEN FALSE
  ELSE LET higher == Max(r1, r2)
           lower == Min(r1, r2)
       IN IF higher = 13 /\ lower <= 12 THEN TRUE
          ELSE IF lower >= 12 /\ (higher - lower) >= 2 THEN TRUE
          ELSE FALSE

isValidValorantScore(r1, r2) ==
  IF r1 < 0 \/ r2 < 0 THEN FALSE
  ELSE IF r1 = r2 THEN FALSE
  ELSE LET higher == Max(r1, r2)
           lower == Min(r1, r2)
       IN IF higher = 13 /\ lower <= 11 THEN TRUE
          ELSE IF lower >= 12 /\ (higher - lower) >= 2 THEN TRUE
          ELSE FALSE

getWinner_Swapped(homeRounds, awayRounds) ==
  IF ~isValidValorantScore(homeRounds, awayRounds) THEN "none"
  ELSE IF homeRounds > awayRounds THEN "away" ELSE "home"

getWinner(homeRounds, awayRounds) ==
  IF ~isValidValorantScore(homeRounds, awayRounds) THEN "none"
  ELSE IF homeRounds > awayRounds THEN "home" ELSE "away"

ScoreDiagnosis_GapFirst(homeRounds, awayRounds) ==
  LET higher == Max(homeRounds, awayRounds)
      lower == Min(homeRounds, awayRounds)
  IN IF homeRounds = awayRounds THEN "draw"
     ELSE IF lower >= 12 /\ (higher - lower) = 1 THEN "overtime-gap"
     ELSE IF higher = 13 /\ lower = 12 THEN "needs-overtime"
     ELSE IF higher < 13 THEN "not-finished"
     ELSE "invalid"

\* the branch of the InvalidScore message chosen by reportMatchResult (74-89)
ScoreDiagnosis(homeRounds, awayRounds) ==
  LET higher == Max(homeRounds, awayRounds)
      lower == Min(homeRounds, awayRounds)
  IN IF homeRounds = awayRounds THEN "draw"
     ELSE IF higher = 13 /\ lower = 12 THEN "needs-overtime"
     ELSE IF higher < 13 THEN "not-finished"
     ELSE IF lower >= 12 /\ (higher - lower) = 1 THEN "overtime-gap"
     ELSE "invalid"

----------------------------------------------------------------------------
(* Identifiers: tournamentService.ts 44-54 *)

\* `t_${Date.now()}`: the clock reading alone
generateId(now) == now

\* `team_${Date.now()}_${random}`: the k-th team id generated for a tournament
generateTeamId(k) == TeamIdBase + k

\* `match_${Date.now()}_${random}`: the k-th match id generated for a bracket
generateMatchId(k) == MatchIdBase + k

\* a match id no bracket ever holds
UnknownMatchId == MatchIdBase

----------------------------------------------------------------------------
(* Bracket generation: tournamentService.ts 206-274 *)

\* first-pass value of nextMatchId when no key was stored (null)
NoKey == <<>>

matchesPerRound_OffByOne(totalRounds) ==
  [round \in 1..totalRounds |-> Pow2(totalRounds - round - 1)]

matchesPerRound(totalRounds) ==
  [round \in 1..totalRounds |-> Pow2(totalRounds - round)]

\* `${round + 1}-${Math.ceil(matchNumber / 2)}`
NextMatchKey(round, matchNumber) == <<round + 1, CeilHalf(matchNumber)>>

RoundOneSeed_AwayFirst(match, matchNumber, shuffledTeams) ==
  LET homeIndex == (matchNumber - 1) * 2
      awayIndex == homeIndex + 1
  IN [match EXCEPT !.homeTeamId = shuffledTeams[awayIndex + 1].id,
                   !.awayTeamId = shuffledTeams[awayIndex + 1].id,
                   !.status = "ready"]

\* lines 244-250: seed a first-round match (shuffledTeams is 1-based here)
RoundOneSeed(match, matchNumber, shuffledTeams) ==
  LET homeIndex == (matchNumber - 1) * 2
      awayIndex == homeIndex + 1
  IN [match EXCEPT !.homeTeamId = shuffledTeams[homeIndex + 1].id,
                   !.awayTeamId = shuffledTeams[awayIndex + 1].id,
                   !.status = "ready"]

\* lines 225-257: the match pushed for (round, matchNumber) in the first pass;
\* generated is the number of matches pushed before it
NewMatch(round, matchNumber, totalRounds, shuffledTeams, generated) ==
  LET match == [id |-> generateMatchId(generated + 1),
                stage |-> round,
                stagePosition |-> matchNumber,
                homeTeamId |-> Null,
                awayTeamId |-> Null,
                winnerId |-> Null,
                homeRounds |-> Null,
                awayRounds |-> Null,
                status |-> "pending",
                nextMatchId |-> NoKey,
                completedAt |-> "null"]
      seeded == IF round = 1 THEN RoundOneSeed(match, matchNumber, shuffledTeams)
                ELSE match
  IN IF round < totalRounds
       THEN [seeded EXCEPT !.nextMatchId = NextMatchKey(round, matchNumber)]
       ELSE seeded

\* lines 221-262: the outer loop over rounds, appending to matches
RECURSIVE FirstPass(_, _, _, _)
FirstPass(round, totalRounds, shuffledTeams, matches) ==
  IF round > totalRounds THEN matches
  ELSE LET matchesInRound == matchesPerRound(totalRounds)[round]
           pushed == [n \in 1..matchesInRound |->
                        NewMatch(round, n, totalRounds, shuffledTeams,
                                 Len(matches) + n - 1)]
       IN FirstPass(round + 1, totalRounds, shuffledTeams, matches \o pushed)

\* matchIdMap: key `${round}-${matchNumber}` -> id (a later set overrides)
MatchIdMap(matches) ==
  [key \in {<<matches[i].stage, matches[i].stagePosition>> : i \in DOMAIN matches} |->
     LET last == CHOOSE i \in DOMAIN matches :
                   /\ <<matches[i].stage, matches[i].stagePosition>> = key
                   /\ \A j \in DOMAIN matches :
                        <<matches[j].stage, matches[j].stagePosition>> = key => j <= i
     IN matches[last].id]

\* lines 265-271: rewrite the keys into ids
ResolveLinks(matches) ==
  LET matchIdMap == MatchIdMap(matches)
  IN [i \in DOMAIN matches |->
        LET key == matches[i].nextMatchId
        IN IF key # NoKey /\ key \in DOMAIN matchIdMap
             THEN [matches[i] EXCEPT !.nextMatchId = matchIdMap[key]]
             ELSE [matches[i] EXCEPT !.nextMatchId = Null]]

generateBracket(teams, shuffledTeams) ==
  LET teamCount == Len(teams)
      totalRounds == Log2(teamCount)
  IN ResolveLinks(FirstPass(1, totalRounds, shuffledTeams, <<>>))

\* outcomes of [...teams].sort(() => Math.random() - 0.5): permutations of 1..n
IsPermutation(p, n) ==
  /\ DOMAIN p = 1..n
  /\ \A i \in 1..n : p[i] \in 1..n
  /\ \A i, j \in 1..n : p[i] = p[j] => i = j

AllShuffles(n) == {p \in [1..n -> 1..n] : IsPermutation(p, n)}

\* the j-th sampled seeding of n teams (n a power of two, so an odd stride
\* is a bijection)
SampleShuffle(n, j) == [i \in 1..n |-> (((i - 1) * (2 * j + 1) + j) % n) + 1]

\* seedings tried for a list of n teams: all of them up to four teams,
\* count sampled ones above
Shuffles(n, count) ==
  IF n <= 4 THEN AllShuffles(n)
  ELSE {SampleShuffle(n, j) : j \in 1..count}

----------------------------------------------------------------------------
(* Registry: tournamentService.ts 23-204, 327-333 *)

Ok == "none"

\* what the caller of an operation observes: success, or the error thrown
Result(op, error) == [op |-> op, error |-> error]

\* list(guildId): the tournaments of a guild
list(registry, guildId) ==
  [id \in {i \in DOMAIN registry : registry[i].guildId = guildId} |-> registry[id]]

\* what the caller of saveGuildData gets back: saveTournaments catches every
\* failure of the write and only logs it (part_001 30-40)
SaveResult_Rethrow(written) == IF written THEN Ok ELSE "WriteFailed"

SaveResult(written) == Ok

\* saveGuildData: the files after dataService.saveTournaments has run; a
\* write that fails leaves them as they were
saveGuildData(files, registry, guildId) ==
  IF writable
    THEN [g \in (DOMAIN files) \cup {guildId} |->
            IF g = guildId THEN list(registry, guildId) ELSE files[g]]
    ELSE files

\* this.tournaments.set(id, tournament)
MapSet(registry, id, tournament) ==
  [i \in (DOMAIN registry) \cup {id} |-> IF i = id THEN tournament ELSE registry[i]]

findByNameAndGuild(registry, name, guildId) ==
  {i \in DOMAIN registry : registry[i].name = name /\ registry[i].guildId = guildId}

isTeamNameTaken_LastOnly(tournament, teamName) ==
  /\ tournament.teams # <<>>
  /\ tournament.teams[Len(tournament.teams)].name = teamName

isTeamNameTaken(tournament, teamName) ==
  \E i \in DOMAIN tournament.teams : tournament.teams[i].name = teamName

canRegisterTeam_AtMost(tournament) == Len(tournament.teams) <= tournament.teamCount

canRegisterTeam(tournament) == Len(tournament.teams) < tournament.teamCount

\* create (56-87)
Create(name, teamCount, guildId, now) ==
  /\ IF findByNameAndGuild(tournaments, name, guildId) # {}
       THEN /\ lastResult' = Result("create", "DuplicateName")
            /\ UNCHANGED <<tournaments, stored>>
       ELSE LET totalStages == Log2(teamCount)
                tournament == [id |-> generateId(now),
                               name |-> name,
                               teamCount |-> teamCount,
                               status |-> "draft",
                               guildId |-> guildId,
                               currentStage |-> 1,
                               totalStages |-> totalStages,
                               teams |-> <<>>,
                               matches |-> <<>>,
                               updatedAt |-> "Date",
                               completedAt |-> "null"]
                registry == MapSet(tournaments, tournament.id, tournament)
            IN /\ tournaments' = registry
               /\ stored' = saveGuildData(stored, registry, guildId)
               /\ lastResult' = Result("create", SaveResult(writable))
  /\ UNCHANGED <<progress, rounds1, rounds2, scoreOut, inflight, writable, verification, players, guildPlayers, registering>>

StartRegistration_FromAny(tournamentId) ==
  /\ IF tournamentId \notin DOMAIN tournaments
       THEN /\ lastResult' = Result("startRegistration", "NotFound")
            /\ UNCHANGED <<tournaments, stored>>
       ELSE LET tournament == [tournaments[tournamentId] EXCEPT !.status = "registration"]
                registry == MapSet(tournaments, tournamentId, tournament)
            IN /\ tournaments' = registry
               /\ stored' = saveGuildData(stored, registry, tournament.guildId)
               /\ lastResult' = Result("startRegistration", SaveResult(writable))
  /\ UNCHANGED <<progress, rounds1, rounds2, scoreOut, inflight, writable, verification, players, guildPlayers, registering>>

\* startRegistration (102-120)
StartRegistration(tournamentId) ==
  /\ IF tournamentId \notin DOMAIN tournaments
       THEN /\ lastResult' = Result("startRegistration", "NotFound")
            /\ UNCHANGED <<tournaments, stored>>
       ELSE IF tournaments[tournamentId].status # "draft"
       THEN /\ lastResult' = Result("startRegistration", "NotDraft")
            /\ UNCHANGED <<tournaments, stored>>
       ELSE LET tournament == [tournaments[tournamentId] EXCEPT !.status = "registration"]
                registry == MapSet(tournaments, tournamentId, tournament)
            IN /\ tournaments' = registry
               /\ stored' = saveGuildData(stored, registry, tournament.guildId)
               /\ lastResult' = Result("startRegistration", SaveResult(writable))
  /\ UNCHANGED <<progress, rounds1, rounds2, scoreOut, inflight, writable, verification, players, guildPlayers, registering>>

RegisterTeam_PushFirst(tournamentId, name) ==
  /\ IF tournamentId \notin DOMAIN tournaments
       THEN /\ lastResult' = Result("registerTeam", "NotFound")
            /\ UNCHANGED <<tournaments, stored>>
       ELSE IF tournaments[tournamentId].status # "registration"
       THEN /\ lastResult' = Result("registerTeam", "NotRegistration")
            /\ UNCHANGED <<tournaments, stored>>
       ELSE IF ~canRegisterTeam(tournaments[tournamentId])
       THEN /\ lastResult' = Result("registerTeam", "CapacityExceeded")
            /\ UNCHANGED <<tournaments, stored>>
       ELSE LET old == tournaments[tournamentId]
                team == [id |-> generateTeamId(Len(old.teams) + 1), name |-> name]
                tournament == [old EXCEPT !.teams = Append(old.teams, team)]
                registry == MapSet(tournaments, tournamentId, tournament)
            IN IF isTeamNameTaken(old, name)
                 THEN /\ tournaments' = registry
                      /\ lastResult' = Result("registerTeam", "DuplicateName")
                      /\ UNCHANGED stored
                 ELSE /\ tournaments' = registry
                      /\ stored' = saveGuildData(stored, registry, tournament.guildId)
                      /\ lastResult' = Result("registerTeam", SaveResult(writable))
  /\ UNCHANGED <<progress, rounds1, rounds2, scoreOut, inflight, writable, verification, players, guildPlayers, registering>>

\* registerTeam (122-158)
RegisterTeam(tournamentId, name) ==
  /\ IF tournamentId \notin DOMAIN tournaments
       THEN /\ lastResult' = Result("registerTeam", "NotFound")
            /\ UNCHANGED <<tournaments, stored>>
       ELSE IF tournaments[tournamentId].status # "registration"
       THEN /\ lastResult' = Result("registerTeam", "NotRegistration")
            /\ UNCHANGED <<tournaments, stored>>
       ELSE IF ~canRegisterTeam(tournaments[tournamentId])
       THEN /\ lastResult' = Result("registerTeam", "CapacityExceeded")
            /\ UNCHANGED <<tournaments, stored>>
       ELSE IF isTeamNameTaken(tournaments[tournamentId], name)
       THEN /\ lastResult' = Result("registerTeam", "DuplicateName")
            /\ UNCHANGED <<tournaments, stored>>
       ELSE LET old == tournaments[tournamentId]
                team == [id |-> generateTeamId(Len(old.teams) + 1), name |-> name]
                tournament == [old EXCEPT !.teams = Append(old.teams, team)]
                registry == MapSet(tournaments, tournamentId, tournament)
            IN /\ tournaments' = registry
               /\ stored' = saveGuildData(stored, registry, tournament.guildId)
               /\ lastResult' = Result("registerTeam", SaveResult(writable))
  /\ UNCHANGED <<progress, rounds1, rounds2, scoreOut, inflight, writable, verification, players, guildPlayers, registering>>

remainingTeams_Registered(tournament) == Len(tournament.teams)

\* line 187: const remaining = tournament.teamCount - tournament.teams.length
remainingTeams(tournament) == tournament.teamCount - Len(tournament.teams)

\* the error of line 188, whose message carries the shortfall
RosterError(remaining) ==
  [op |-> "startTournament", error |-> "IncompleteRoster", remaining |-> remaining]

\* startTournament (176-204); shuffle is the permutation the random sort yields
StartTournament(tournamentId, shuffle) ==
  /\ IF tournamentId \notin DOMAIN tournaments
       THEN /\ lastResult' = Result("startTournament", "NotFound")
            /\ UNCHANGED <<tournaments, stored>>
       ELSE IF tournaments[tournamentId].status # "registration"
       THEN /\ lastResult' = Result("startTournament", "NotRegistration")
            /\ UNCHANGED <<tournaments, stored>>
       ELSE IF Len(tournaments[tournamentId].teams) # tournaments[tournamentId].teamCount
       THEN /\ lastResult' = RosterError(remainingTeams(tournaments[tournamentId]))
            /\ UNCHANGED <<tournaments, stored>>
       ELSE LET old == tournaments[tournamentId]
                shuffledTeams == [i \in DOMAIN old.teams |-> old.teams[shuffle[i]]]
                matches == generateBracket(old.teams, shuffledTeams)
                tournament == [old EXCEPT !.matches = matches, !.status = "active"]
                registry == MapSet(tournaments, tournamentId, tournament)
            IN /\ tournaments' = registry
               /\ stored' = saveGuildData(stored, registry, tournament.guildId)
               /\ lastResult' = Result("startTournament", SaveResult(writable))
  /\ UNCHANGED <<progress, rounds1, rounds2, scoreOut, inflight, writable, verification, players, guildPlayers, registering>>

----------------------------------------------------------------------------
(* Match service: matchService.ts 67-216 *)

\* tournament.teams.find(t => t.id === teamId)?.name
TeamNameOf(teams, teamId) ==
  IF FindById(teams, teamId) # 0
    THEN teams[FindById(teams, teamId)].name
    ELSE NoName

\* [...new Set(matches.map(m => m.stage))].sort((a, b) => a - b)
RECURSIVE SortAscending(_)
SortAscending(S) ==
  IF S = {} THEN <<>>
  ELSE LET least == CHOOSE x \in S : \A y \in S : x <= y
       IN <<least>> \o SortAscending(S \ {least})

StagesOf(matches) == SortAscending({matches[i].stage : i \in DOMAIN matches})

NoProgress ==
  [tournamentId |-> Null, isCompleted |-> FALSE, currentRound |-> 0,
   totalRounds |-> 0, champion |-> NoName, runnerUp |-> NoName]

\* line 193: the finalist that is not the winner
RunnerUpId(finalMatch) ==
  IF finalMatch.homeTeamId = finalMatch.winnerId
    THEN finalMatch.awayTeamId ELSE finalMatch.homeTeamId

IsFinalStage_Any(stage, totalStages) == stage >= 1

\* line 187
IsFinalStage(stage, totalStages) == stage = totalStages

\* lines 175-205: the loop over the stages from the k-th on; acc carries the
\* locals currentStage, isCompleted, champion, runnerUp
RECURSIVE ProgressLoop(_, _, _, _)
ProgressLoop(tournament, stages, k, acc) ==
  IF k > Len(stages) THEN acc
  ELSE LET stage == stages[k]
           stageMatches == SelectSeq(tournament.matches, LAMBDA m : m.stage = stage)
           completedMatches == SelectSeq(stageMatches, LAMBDA m : m.status = "completed")
       IN IF Len(completedMatches) < Len(stageMatches) THEN acc
          ELSE IF IsFinalStage(stage, tournament.totalStages)
            THEN LET finalMatch == stageMatches[1]
                 IN IF finalMatch.winnerId # Null
                      THEN [currentStage |-> stage + 1,
                            isCompleted |-> TRUE,
                            champion |-> TeamNameOf(tournament.teams, finalMatch.winnerId),
                            runnerUp |-> TeamNameOf(tournament.teams, RunnerUpId(finalMatch))]
                      ELSE [acc EXCEPT !.currentStage = stage + 1, !.isCompleted = TRUE]
            ELSE ProgressLoop(tournament, stages, k + 1,
                              [acc EXCEPT !.currentStage = stage + 1])

checkTournamentProgress_Advance(tournament) ==
  LET totalStages == tournament.totalStages
      stages == StagesOf(tournament.matches)
      out == ProgressLoop(tournament, stages, 1,
                          [currentStage |-> 1, isCompleted |-> FALSE,
                           champion |-> NoName, runnerUp |-> NoName])
      after == [tournament EXCEPT
                  !.status = IF out.isCompleted THEN "completed" ELSE @,
                  !.completedAt = IF out.isCompleted THEN "Date" ELSE @,
                  !.currentStage = Min(tournament.currentStage + 1, totalStages)]
  IN [tournament |-> after,
      status |-> [tournamentId |-> tournament.id,
                  isCompleted |-> out.isCompleted,
                  currentRound |-> after.currentStage,
                  totalRounds |-> totalStages,
                  champion |-> out.champion,
                  runnerUp |-> out.runnerUp]]

checkTournamentProgress_NoClamp(tournament) ==
  LET totalStages == tournament.totalStages
      stages == StagesOf(tournament.matches)
      out == ProgressLoop(tournament, stages, 1,
                          [currentStage |-> 1, isCompleted |-> FALSE,
                           champion |-> NoName, runnerUp |-> NoName])
      after == [tournament EXCEPT
                  !.status = IF out.isCompleted THEN "completed" ELSE @,
                  !.completedAt = IF out.isCompleted THEN "Date" ELSE @,
                  !.currentStage = out.currentStage]
  IN [tournament |-> after,
      status |-> [tournamentId |-> tournament.id,
                  isCompleted |-> out.isCompleted,
                  currentRound |-> after.currentStage,
                  totalRounds |-> totalStages,
                  champion |-> out.champion,
                  runnerUp |-> out.runnerUp]]

\* checkTournamentProgress (165-216): the tournament as it leaves it, and the
\* TournamentStatus it returns
checkTournamentProgress(tournament) ==
  LET totalStages == tournament.totalStages
      stages == StagesOf(tournament.matches)
      out == ProgressLoop(tournament, stages, 1,
                          [currentStage |-> 1, isCompleted |-> FALSE,
                           champion |-> NoName, runnerUp |-> NoName])
      after == [tournament EXCEPT
                  !.status = IF out.isCompleted THEN "completed" ELSE @,
                  !.completedAt = IF out.isCompleted THEN "Date" ELSE @,
                  !.currentStage = Min(out.currentStage, totalStages)]
  IN [tournament |-> after,
      status |-> [tournamentId |-> tournament.id,
                  isCompleted |-> out.isCompleted,
                  currentRound |-> after.currentStage,
                  totalRounds |-> totalStages,
                  champion |-> out.champion,
                  runnerUp |-> out.runnerUp]]

ApplyResult_AlwaysHome(match, homeRounds, awayRounds) ==
  [match EXCEPT !.homeRounds = homeRounds,
                !.awayRounds = awayRounds,
                !.winnerId = match.homeTeamId,
                !.status = "completed",
                !.completedAt = "Date"]

\* lines 113-124: the reported match after the result is written
ApplyResult(match, homeRounds, awayRounds) ==
  LET winnerSide == getWinner(homeRounds, awayRounds)
      winnerId == IF winnerSide = "home" THEN match.homeTeamId ELSE match.awayTeamId
  IN [match EXCEPT !.homeRounds = homeRounds,
                   !.awayRounds = awayRounds,
                   !.winnerId = winnerId,
                   !.status = "completed",
                   !.completedAt = "Date"]

FillSlot_NeverReady(nextMatch, winnerId) ==
  IF nextMatch.homeTeamId = Null
    THEN [nextMatch EXCEPT !.homeTeamId = winnerId]
  ELSE IF nextMatch.awayTeamId = Null
    THEN [nextMatch EXCEPT !.awayTeamId = winnerId]
  ELSE nextMatch

FillSlot_Overwrite(nextMatch, winnerId) ==
  LET filled == IF nextMatch.awayTeamId = Null /\ nextMatch.homeTeamId # Null
                  THEN [nextMatch EXCEPT !.awayTeamId = nextMatch.homeTeamId,
                                         !.homeTeamId = winnerId]
                  ELSE [nextMatch EXCEPT !.homeTeamId = winnerId]
  IN IF filled.homeTeamId # Null /\ filled.awayTeamId # Null /\ filled.status = "pending"
       THEN [filled EXCEPT !.status = "ready"]
       ELSE filled

FillSlot_ReadyAtOnce(nextMatch, winnerId) ==
  LET filled == IF nextMatch.homeTeamId = Null
                  THEN [nextMatch EXCEPT !.homeTeamId = winnerId]
                ELSE IF nextMatch.awayTeamId = Null
                  THEN [nextMatch EXCEPT !.awayTeamId = winnerId]
                ELSE nextMatch
  IN IF filled.status = "pending" THEN [filled EXCEPT !.status = "ready"] ELSE filled

\* lines 132-141: the linked match after the winner is seated
FillSlot(nextMatch, winnerId) ==
  LET filled == IF nextMatch.homeTeamId = Null
                  THEN [nextMatch EXCEPT !.homeTeamId = winnerId]
                ELSE IF nextMatch.awayTeamId = Null
                  THEN [nextMatch EXCEPT !.awayTeamId = winnerId]
                ELSE nextMatch
  IN IF filled.homeTeamId # Null /\ filled.awayTeamId # Null /\ filled.status = "pending"
       THEN [filled EXCEPT !.status = "ready"]
       ELSE filled

Propagate_Stage(matches, idx) ==
  LET match == matches[idx]
  IN IF match.nextMatchId = Null THEN matches
     ELSE [i \in DOMAIN matches |->
             IF matches[i].stage = match.stage + 1
               THEN FillSlot(matches[i], match.winnerId)
               ELSE matches[i]]

Propagate_Loser(matches, idx) ==
  LET match == matches[idx]
      loserId == IF match.winnerId = match.homeTeamId
                   THEN match.awayTeamId ELSE match.homeTeamId
  IN IF match.nextMatchId = Null THEN matches
     ELSE LET nidx == FindById(matches, match.nextMatchId)
          IN IF nidx = 0 THEN matches
             ELSE [matches EXCEPT ![nidx] = FillSlot(matches[nidx], loserId)]

Propagate_Unlink(matches, idx) ==
  LET match == matches[idx]
  IN IF match.nextMatchId = Null THEN matches
     ELSE LET nidx == FindById(matches, match.nextMatchId)
          IN IF nidx = 0 THEN matches
             ELSE [matches EXCEPT ![nidx] = FillSlot(matches[nidx], match.winnerId),
                                  ![idx].nextMatchId = Null]

\* lines 127-146: propagation of the winner of matches[idx] into its next match
Propagate(matches, idx) ==
  LET match == matches[idx]
  IN IF match.nextMatchId = Null THEN matches
     ELSE LET nidx == FindById(matches, match.nextMatchId)
          IN IF nidx = 0 THEN matches
             ELSE [matches EXCEPT ![nidx] = FillSlot(matches[nidx], match.winnerId)]

ReportError_ScoreLast(tournamentId, matchId, homeRounds, awayRounds) ==
  IF tournamentId \notin DOMAIN tournaments THEN "NotFound"
  ELSE IF tournaments[tournamentId].status # "active" THEN "NotActive"
  ELSE LET matches == tournaments[tournamentId].matches
           idx == FindById(matches, matchId)
       IN IF idx = 0 THEN "MatchNotFound"
          ELSE IF matches[idx].status = "completed" THEN "AlreadyCompleted"
          ELSE IF matches[idx].homeTeamId = Null \/ matches[idx].awayTeamId = Null
            THEN "TeamsNotAssigned"
          ELSE IF ~isValidValorantScore(homeRounds, awayRounds) THEN "InvalidScore"
          ELSE Ok

ReportError_NoStateChecks(tournamentId, matchId, homeRounds, awayRounds) ==
  IF ~isValidValorantScore(homeRounds, awayRounds) THEN "InvalidScore"
  ELSE IF tournamentId \notin DOMAIN tournaments THEN "NotFound"
  ELSE LET matches == tournaments[tournamentId].matches
           idx == FindById(matches, matchId)
       IN IF idx = 0 THEN "MatchNotFound"
          ELSE IF matches[idx].homeTeamId = Null \/ matches[idx].awayTeamId = Null
            THEN "TeamsNotAssigned"
          ELSE Ok

ReportError_NoCompletedCheck(tournamentId, matchId, homeRounds, awayRounds) ==
  IF ~isValidValorantScore(homeRounds, awayRounds) THEN "InvalidScore"
  ELSE IF tournamentId \notin DOMAIN tournaments THEN "NotFound"
  ELSE IF tournaments[tournamentId].status # "active" THEN "NotActive"
  ELSE LET matches == tournaments[tournamentId].matches
           idx == FindById(matches, matchId)
       IN IF idx = 0 THEN "MatchNotFound"
          ELSE IF matches[idx].homeTeamId = Null \/ matches[idx].awayTeamId = Null
            THEN "TeamsNotAssigned"
          ELSE Ok

ReportError_NoSlotCheck(tournamentId, matchId, homeRounds, awayRounds) ==
  IF ~isValidValorantScore(homeRounds, awayRounds) THEN "InvalidScore"
  ELSE IF tournamentId \notin DOMAIN tournaments THEN "NotFound"
  ELSE IF tournaments[tournamentId].status # "active" THEN "NotActive"
  ELSE LET matches == tournaments[tournamentId].matches
           idx == FindById(matches, matchId)
       IN IF idx = 0 THEN "MatchNotFound"
          ELSE IF matches[idx].status = "completed" THEN "AlreadyCompleted"
          ELSE Ok

\* the error of the first precondition of reportMatchResult that fails (73-111)
ReportError(tournamentId, matchId, homeRounds, awayRounds) ==
  IF ~isValidValorantScore(homeRounds, awayRounds) THEN "InvalidScore"
  ELSE IF tournamentId \notin DOMAIN tournaments THEN "NotFound"
  ELSE IF tournaments[tournamentId].status # "active" THEN "NotActive"
  ELSE LET matches == tournaments[tournamentId].matches
           idx == FindById(matches, matchId)
       IN IF idx = 0 THEN "MatchNotFound"
          ELSE IF matches[idx].status = "completed" THEN "AlreadyCompleted"
          ELSE IF matches[idx].homeTeamId = Null \/ matches[idx].awayTeamId = Null
            THEN "TeamsNotAssigned"
          ELSE Ok

\* reportMatchResult (67-160)
ReportMatchResult(tournamentId, matchId, homeRounds, awayRounds) ==
  LET error == ReportError(tournamentId, matchId, homeRounds, awayRounds)
  IN IF error # Ok
       THEN /\ lastResult' = Result("report", error)
            /\ UNCHANGED <<tournaments, stored, progress, rounds1, rounds2, scoreOut, inflight, writable, verification, players, guildPlayers, registering>>
       ELSE LET old == tournaments[tournamentId]
                idx == FindById(old.matches, matchId)
                reported == [old.matches EXCEPT
                               ![idx] = ApplyResult(old.matches[idx], homeRounds, awayRounds)]
                advanced == [old EXCEPT !.matches = Propagate(reported, idx)]
                checked == checkTournamentProgress(advanced)
                registry == MapSet(tournaments, checked.tournament.id, checked.tournament)
            IN /\ tournaments' = registry
               /\ stored' = saveGuildData(stored, registry, checked.tournament.guildId)
               /\ progress' = checked.status
               /\ lastResult' = Result("report", SaveResult(writable))
               /\ UNCHANGED <<rounds1, rounds2, scoreOut, inflight, writable, verification, players, guildPlayers, registering>>

\* a further call of checkTournamentProgress on a registered tournament
CheckTournamentProgress(tournamentId) ==
  /\ tournamentId \in DOMAIN tournaments
  /\ LET checked == checkTournamentProgress(tournaments[tournamentId])
     IN /\ tournaments' = [tournaments EXCEPT ![tournamentId] = checked.tournament]
        /\ progress' = checked.status
  /\ lastResult' = Result("checkProgress", Ok)
  /\ UNCHANGED <<stored, rounds1, rounds2, scoreOut, inflight, writable, verification, players, guildPlayers, registering>>

\* the score rule applied to the harness arguments, and the diagnosis
\* reportMatchResult gives for a pair the rule rejects (73-89)
EvaluateScore ==
  /\ scoreOut.pc = "ready"
  /\ scoreOut' = [pc |-> "done",
                  valid |-> isValidValorantScore(rounds1, rounds2),
                  winner |-> getWinner(rounds1, rounds2),
                  diagnosis |-> IF isValidValorantScore(rounds1, rounds2)
                                  THEN "none"
                                  ELSE ScoreDiagnosis(rounds1, rounds2)]
  /\ UNCHANGED <<tournaments, stored, lastResult, progress, rounds1, rounds2, inflight, writable, verification, players, guildPlayers, registering>>

----------------------------------------------------------------------------
(* Queries: tournamentService.ts 276-298 *)

\* getMatches (276-279)
getMatches(registry, tournamentId) ==
  IF tournamentId \in DOMAIN registry THEN registry[tournamentId].matches ELSE <<>>

hasIncompleteMatch_Pending(stageMatches) ==
  \E i \in DOMAIN stageMatches : stageMatches[i].status = "pending"

\* line 290: stageMatches.some(m => m.status !== 'completed')
hasIncompleteMatch(stageMatches) ==
  \E i \in DOMAIN stageMatches : stageMatches[i].status # "completed"

\* lines 288-295: the loop over the stages from the k-th on
RECURSIVE CurrentStageLoop(_, _, _)
CurrentStageLoop(matches, stages, k) ==
  IF k > Len(stages) THEN <<>>
  ELSE LET stageMatches == SelectSeq(matches, LAMBDA m : m.stage = stages[k])
       IN IF hasIncompleteMatch(stageMatches) THEN stageMatches
          ELSE CurrentStageLoop(matches, stages, k + 1)

\* getCurrentStageMatches (281-298)
getCurrentStageMatches(registry, tournamentId) ==
  LET matches == getMatches(registry, tournamentId)
  IN IF Len(matches) = 0 THEN <<>>
     ELSE CurrentStageLoop(matches, StagesOf(matches), 1)

----------------------------------------------------------------------------
(* Inputs and specifications *)

\* the readings of Date.now() a create may observe
ClockReadings == 1..MaxClock

\* an id no tournament ever has
UnknownTournamentId == 0

\* tournament ids a caller may pass: those of the registry and an unknown one
TournamentIds == (DOMAIN tournaments) \cup {UnknownTournamentId}

\* team counts played through to the end in Spec
PlayTeamCounts == {4, 8}

\* score pairs reported in Spec: a home win, an away win in overtime, and
\* a pair the rule rejects
ReportScores == {<<13, 7>>, <<12, 14>>, <<13, 12>>}

\* the first name (taken as soon as one team is registered) or the next
\* unused one (names are interchangeable)
NameInputs(tournamentId) ==
  IF tournamentId \in DOMAIN tournaments
    THEN {TeamNames[1],
          TeamNames[Min(Len(tournaments[tournamentId].teams) + 1, Len(TeamNames))]}
    ELSE {TeamNames[1]}

\* startTournament reaches the random sort only past its three checks
ReachesShuffle(tournamentId) ==
  /\ tournamentId \in DOMAIN tournaments
  /\ tournaments[tournamentId].status = "registration"
  /\ Len(tournaments[tournamentId].teams) = tournaments[tournamentId].teamCount

\* seedings tried in Spec: every one of four teams, one sampled seeding of a
\* longer list (teams are interchangeable)
ShuffleInputs(tournamentId) ==
  IF ReachesShuffle(tournamentId)
    THEN Shuffles(Len(tournaments[tournamentId].teams), 1)
    ELSE {<<>>}

\* seedings tried in SpecSetup: as many sampled seedings as teams
SetupShuffleInputs(tournamentId) ==
  IF ReachesShuffle(tournamentId)
    THEN Shuffles(Len(tournaments[tournamentId].teams),
                  Len(tournaments[tournamentId].teams))
    ELSE {<<>>}

MatchIdInputs(tournamentId) ==
  IF tournamentId \in DOMAIN tournaments
    THEN {tournaments[tournamentId].matches[i].id :
            i \in DOMAIN tournaments[tournamentId].matches} \cup {UnknownMatchId}
    ELSE {UnknownMatchId}

\* no verifyRiotId call made yet
NoVerification ==
  [phase |-> "idle", caller |-> "none", validId |-> TRUE, validKey |-> TRUE,
   region |-> 0, retries |-> 0, responses |-> <<>>, results |-> <<>>,
   result |-> [success |-> FALSE, code |-> 0, region |-> NoName],
   connection |-> [success |-> FALSE, code |-> 0]]

Init ==
  /\ tournaments = <<>>
  /\ stored = <<>>
  /\ lastResult = Result("none", Ok)
  /\ progress = NoProgress
  /\ rounds1 = 0
  /\ rounds2 = 0
  /\ scoreOut = [pc |-> "idle", valid |-> FALSE, winner |-> "none",
                 diagnosis |-> "none"]
  /\ inflight = {}
  /\ writable = TRUE
  /\ verification = NoVerification
  /\ players = <<>>
  /\ guildPlayers = <<>>
  /\ registering = {}

Next ==
  \/ \E name \in TournamentNames, teamCount \in PlayTeamCounts, now \in ClockReadings :
       Create(name, teamCount, TheGuild, now)
  \/ \E tid \in TournamentIds : StartRegistration(tid)
  \/ \E tid \in TournamentIds : \E name \in NameInputs(tid) : RegisterTeam(tid, name)
  \/ \E tid \in TournamentIds : \E shuffle \in ShuffleInputs(tid) :
       StartTournament(tid, shuffle)
  \/ \E tid \in TournamentIds : \E mid \in MatchIdInputs(tid) : \E score \in ReportScores :
       ReportMatchResult(tid, mid, score[1], score[2])
  \/ \E tid \in TournamentIds : CheckTournamentProgress(tid)

Spec == Init /\ [][Next]_vars

\* the registry up to the start of the tournament, for every team count
NextSetup ==
  \/ \E name \in TournamentNames, teamCount \in TeamCountChoices, now \in ClockReadings :
       Create(name, teamCount, TheGuild, now)
  \/ \E tid \in TournamentIds : StartRegistration(tid)
  \/ \E tid \in TournamentIds : \E name \in NameInputs(tid) : RegisterTeam(tid, name)
  \/ \E tid \in TournamentIds : \E shuffle \in SetupShuffleInputs(tid) :
       StartTournament(tid, shuffle)

SpecSetup == Init /\ [][NextSetup]_vars

\* the score rule on every pair of round counts
InitScore ==
  /\ tournaments = <<>>
  /\ stored = <<>>
  /\ lastResult = Result("none", Ok)
  /\ progress = NoProgress
  /\ rounds1 \in (-1)..MaxScore
  /\ rounds2 \in (-1)..MaxScore
  /\ scoreOut = [pc |-> "ready", valid |-> FALSE, winner |-> "none",
                 diagnosis |-> "none"]
  /\ inflight = {}
  /\ writable = TRUE
  /\ verification = NoVerification
  /\ players = <<>>
  /\ guildPlayers = <<>>
  /\ registering = {}

NextScore == EvaluateScore

SpecScore == InitScore /\ [][NextScore]_vars

----------------------------------------------------------------------------
(* Overlapping calls.  create and registerTeam run their checks and their   *)
(* mutation of the registry without suspending (tournamentService.ts 56-82  *)
(* and 122-152) and then await saveGuildData, which takes the list of the   *)
(* guild at once (line 24) and suspends in dataService.saveTournaments:     *)
(* first at ensureDataDirectory (line 32), after which JSON.stringify reads *)
(* the listed tournament objects as they are by then (line 34), then at     *)
(* fs.writeFile (line 35).  Other calls run while a call is suspended.      *)

\* number of calls that may be suspended at the same time
MaxInflight == 2

\* the smallest choice of the `teams` option of /tournament create
OverlapTeamCount == 4

\* the readings of Date.now() in SpecOverlap: one more than in Spec, so that
\* a second create may read a later clock than the first
OverlapClockReadings == ClockReadings \cup {MaxClock + 1}

\* a call suspended in saveGuildData: `listed` are the ids of the tournament
\* objects of the array taken at line 24 that are still in the registry,
\* `detached` the objects of that array a later create has replaced in the
\* registry; `data` is the JSON text once JSON.stringify has run
Call(op, tournamentId, arg, guildId, listed) ==
  [op |-> op, tournamentId |-> tournamentId, arg |-> arg, guildId |-> guildId,
   listed |-> listed, detached |-> <<>>, phase |-> "listed", data |-> <<>>]

\* this.tournaments.set(id, ...) on an id already in the registry: the arrays
\* of the suspended calls keep the object that leaves the registry
Detach(call, id) ==
  IF call.phase = "listed" /\ id \in call.listed /\ id \in DOMAIN tournaments
    THEN [call EXCEPT !.listed = @ \ {id},
                      !.detached = MapSet(@, id, tournaments[id])]
    ELSE call

\* the object literal of create (64-78)
DraftTournament(name, teamCount, guildId, now) ==
  [id |-> generateId(now),
   name |-> name,
   teamCount |-> teamCount,
   status |-> "draft",
   guildId |-> guildId,
   currentStage |-> 1,
   totalStages |-> Log2(teamCount),
   teams |-> <<>>,
   matches |-> <<>>,
   updatedAt |-> "Date",
   completedAt |-> "null"]

\* create up to its await (56-83)
BeginCreate(name, teamCount, guildId, now) ==
  /\ IF findByNameAndGuild(tournaments, name, guildId) # {}
       THEN /\ lastResult' = Result("create", "DuplicateName")
            /\ UNCHANGED <<tournaments, inflight>>
       ELSE LET tournament == DraftTournament(name, teamCount, guildId, now)
                registry == MapSet(tournaments, tournament.id, tournament)
                call == Call("create", tournament.id, name, guildId,
                             DOMAIN list(registry, guildId))
            IN /\ Cardinality(inflight) < MaxInflight
               /\ tournaments' = registry
               /\ inflight' = {Detach(c, tournament.id) : c \in inflight} \cup {call}
               /\ UNCHANGED lastResult
  /\ UNCHANGED <<stored, progress, rounds1, rounds2, scoreOut, writable, verification, players, guildPlayers, registering>>

\* registerTeam up to its await (122-155)
BeginRegisterTeam(tournamentId, name) ==
  /\ IF tournamentId \notin DOMAIN tournaments
       THEN /\ lastResult' = Result("registerTeam", "NotFound")
            /\ UNCHANGED <<tournaments, inflight>>
       ELSE IF tournaments[tournamentId].status # "registration"
       THEN /\ lastResult' = Result("registerTeam", "NotRegistration")
            /\ UNCHANGED <<tournaments, inflight>>
       ELSE IF ~canRegisterTeam(tournaments[tournamentId])
       THEN /\ lastResult' = Result("registerTeam", "CapacityExceeded")
            /\ UNCHANGED <<tournaments, inflight>>
       ELSE IF isTeamNameTaken(tournaments[tournamentId], name)
       THEN /\ lastResult' = Result("registerTeam", "DuplicateName")
            /\ UNCHANGED <<tournaments, inflight>>
       ELSE LET old == tournaments[tournamentId]
                team == [id |-> generateTeamId(Len(old.teams) + 1), name |-> name]
                tournament == [old EXCEPT !.teams = Append(old.teams, team)]
                registry == MapSet(tournaments, tournamentId, tournament)
                call == Call("registerTeam", tournamentId, name, tournament.guildId,
                             DOMAIN list(registry, tournament.guildId))
            IN /\ Cardinality(inflight) < MaxInflight
               /\ tournaments' = registry
               /\ inflight' = inflight \cup {call}
               /\ UNCHANGED lastResult
  /\ UNCHANGED <<stored, progress, rounds1, rounds2, scoreOut, writable, verification, players, guildPlayers, registering>>

\* dataService.saveTournaments line 34: JSON.stringify of the listed objects
Serialize(call) ==
  /\ call \in inflight
  /\ call.phase = "listed"
  /\ LET data == [id \in call.listed \cup DOMAIN call.detached |->
                   IF id \in call.listed THEN tournaments[id] ELSE call.detached[id]]
     IN inflight' = (inflight \ {call})
                      \cup {[call EXCEPT !.phase = "serialized", !.data = data]}
  /\ UNCHANGED <<tournaments, stored, lastResult, progress, rounds1, rounds2, scoreOut, writable, verification, players, guildPlayers, registering>>

\* fs.writeFile settles (line 35): the file holds the text unless the write
\* failed, and the call returns to its caller
WriteLands(call) ==
  /\ call \in inflight
  /\ call.phase = "serialized"
  /\ stored' = IF writable THEN MapSet(stored, call.guildId, call.data) ELSE stored
  /\ inflight' = inflight \ {call}
  /\ lastResult' = Result(call.op, SaveResult(writable))
  /\ UNCHANGED <<tournaments, progress, rounds1, rounds2, scoreOut, writable, verification, players, guildPlayers, registering>>

\* the one seeding SpecOverlap starts a tournament with
OverlapShuffleInputs(tournamentId) ==
  IF ReachesShuffle(tournamentId)
    THEN {[i \in 1..Len(tournaments[tournamentId].teams) |-> i]}
    ELSE {<<>>}

NextOverlap ==
  \/ \E name \in TournamentNames, now \in OverlapClockReadings :
       BeginCreate(name, OverlapTeamCount, TheGuild, now)
  \/ \E tid \in TournamentIds : StartRegistration(tid)
  \/ \E tid \in TournamentIds : \E name \in NameInputs(tid) : BeginRegisterTeam(tid, name)
  \/ \E tid \in TournamentIds : \E shuffle \in OverlapShuffleInputs(tid) :
       StartTournament(tid, shuffle)
  \/ \E call \in inflight : Serialize(call)
  \/ \E call \in inflight : WriteLands(call)

SpecOverlap == Init /\ [][NextOverlap]_vars

----------------------------------------------------------------------------
(* Overlapping reports.  reportMatchResult runs its checks, writes the       *)
(* result, seats the winner and runs the body of checkTournamentProgress     *)
(* (which has no await of its own) without suspending (matchService.ts       *)
(* 73-149); it suspends at the await of line 149, then updateTournament      *)
(* sets the tournament into the Map again and suspends in saveGuildData as   *)
(* create and registerTeam do.                                               *)

Reported_NoPropagate(old, matchId, homeRounds, awayRounds) ==
  LET idx == FindById(old.matches, matchId)
      reported == [old.matches EXCEPT
                     ![idx] = ApplyResult(old.matches[idx], homeRounds, awayRounds)]
  IN checkTournamentProgress([old EXCEPT !.matches = reported])

\* lines 113-149 on tournament old: the tournament as the call leaves it at
\* its first await, and the TournamentStatus it got
Reported(old, matchId, homeRounds, awayRounds) ==
  LET idx == FindById(old.matches, matchId)
      reported == [old.matches EXCEPT
                     ![idx] = ApplyResult(old.matches[idx], homeRounds, awayRounds)]
  IN checkTournamentProgress([old EXCEPT !.matches = Propagate(reported, idx)])

\* reportMatchResult up to its await at line 149
BeginReport(tournamentId, matchId, homeRounds, awayRounds) ==
  LET error == ReportError(tournamentId, matchId, homeRounds, awayRounds)
  IN /\ IF error # Ok
          THEN /\ lastResult' = Result("report", error)
               /\ UNCHANGED <<tournaments, progress, inflight>>
          ELSE LET checked == Reported(tournaments[tournamentId], matchId,
                                       homeRounds, awayRounds)
                   call == [Call("report", tournamentId,
                                 <<matchId, homeRounds, awayRounds>>,
                                 checked.tournament.guildId, {})
                              EXCEPT !.phase = "progress"]
               IN /\ Cardinality(inflight) < MaxInflight
                  /\ tournaments' = MapSet(tournaments, tournamentId, checked.tournament)
                  /\ progress' = checked.status
                  /\ inflight' = inflight \cup {call}
                  /\ UNCHANGED lastResult
     /\ UNCHANGED <<stored, rounds1, rounds2, scoreOut, writable, verification, players, guildPlayers, registering>>

\* the call resumes after line 149: updateTournament (327-333) sets the
\* tournament object it holds into the Map under its id and saveGuildData
\* takes the list of the guild
ResumeReport(call) ==
  /\ call \in inflight
  /\ call.phase = "progress"
  /\ call.tournamentId \in DOMAIN tournaments
  /\ tournaments' = MapSet(tournaments, call.tournamentId, tournaments[call.tournamentId])
  /\ inflight' = (inflight \ {call})
                   \cup {[call EXCEPT !.phase = "listed",
                                      !.listed = DOMAIN list(tournaments', call.guildId)]}
  /\ UNCHANGED <<stored, lastResult, progress, rounds1, rounds2, scoreOut, writable,
                 verification, players, guildPlayers, registering>>

NextReports ==
  \/ \E name \in TournamentNames, now \in ClockReadings :
       Create(name, OverlapTeamCount, TheGuild, now)
  \/ \E tid \in TournamentIds : StartRegistration(tid)
  \/ \E tid \in TournamentIds : \E name \in NameInputs(tid) : RegisterTeam(tid, name)
  \/ \E tid \in TournamentIds : \E shuffle \in OverlapShuffleInputs(tid) :
       StartTournament(tid, shuffle)
  \/ \E tid \in TournamentIds : \E mid \in MatchIdInputs(tid) : \E score \in ReportScores :
       BeginReport(tid, mid, score[1], score[2])
  \/ \E call \in inflight : ResumeReport(call)
  \/ \E call \in inflight : Serialize(call)
  \/ \E call \in inflight : WriteLands(call)

SpecReports == Init /\ [][NextReports]_vars

----------------------------------------------------------------------------
(* Creates under different names *)

\* names given to tournaments in SpecCreate
CreateNames == {"Cup", "Open"}

NextCreate ==
  \/ \E name \in CreateNames, teamCount \in PlayTeamCounts, now \in ClockReadings :
       Create(name, teamCount, TheGuild, now)
  \/ \E tid \in TournamentIds : StartRegistration(tid)
  \/ \E tid \in TournamentIds : \E name \in NameInputs(tid) : RegisterTeam(tid, name)
  \/ \E tid \in TournamentIds : \E shuffle \in OverlapShuffleInputs(tid) :
       StartTournament(tid, shuffle)

SpecCreate == Init /\ [][NextCreate]_vars

----------------------------------------------------------------------------
(* The registry with delete *)

\* delete (98-100): this.tournaments.delete(id), which returns whether the id
\* was there; nothing is saved
Delete(tournamentId) ==
  /\ tournaments' = [id \in (DOMAIN tournaments) \ {tournamentId} |-> tournaments[id]]
  /\ lastResult' = Result("delete", IF tournamentId \in DOMAIN tournaments
                                      THEN Ok ELSE "NotFound")
  /\ UNCHANGED <<stored, progress, rounds1, rounds2, scoreOut, inflight, writable, verification, players, guildPlayers, registering>>

NextDelete ==
  \/ \E name \in TournamentNames, now \in ClockReadings :
       Create(name, OverlapTeamCount, TheGuild, now)
  \/ \E tid \in TournamentIds : StartRegistration(tid)
  \/ \E tid \in TournamentIds : \E name \in NameInputs(tid) : RegisterTeam(tid, name)
  \/ \E tid \in TournamentIds : \E shuffle \in OverlapShuffleInputs(tid) :
       StartTournament(tid, shuffle)
  \/ \E tid \in TournamentIds : \E mid \in MatchIdInputs(tid) : \E score \in ReportScores :
       ReportMatchResult(tid, mid, score[1], score[2])
  \/ \E tid \in TournamentIds : Delete(tid)

SpecDelete == Init /\ [][NextDelete]_vars

----------------------------------------------------------------------------
(* The registry on storage whose writes may fail *)

\* fs.writeFile starts to reject (disk full, no permission)
WriteStartsFailing ==
  /\ writable
  /\ writable' = FALSE
  /\ UNCHANGED <<tournaments, stored, lastResult, progress, rounds1, rounds2,
                 scoreOut, inflight, verification, players, guildPlayers, registering>>

\* fs.writeFile succeeds again
WriteRecovers ==
  /\ ~writable
  /\ writable' = TRUE
  /\ UNCHANGED <<tournaments, stored, lastResult, progress, rounds1, rounds2,
                 scoreOut, inflight, verification, players, guildPlayers, registering>>

NextFailure ==
  \/ \E name \in TournamentNames, now \in ClockReadings :
       Create(name, OverlapTeamCount, TheGuild, now)
  \/ \E tid \in TournamentIds : StartRegistration(tid)
  \/ \E tid \in TournamentIds : \E name \in NameInputs(tid) : RegisterTeam(tid, name)
  \/ \E tid \in TournamentIds : \E shuffle \in OverlapShuffleInputs(tid) :
       StartTournament(tid, shuffle)
  \/ \E tid \in TournamentIds : \E mid \in MatchIdInputs(tid) : \E score \in ReportScores :
       ReportMatchResult(tid, mid, score[1], score[2])
  \/ WriteStartsFailing
  \/ WriteRecovers

SpecFailure == Init /\ [][NextFailure]_vars

----------------------------------------------------------------------------
(* The registry across a restart of the process.  A timestamp field holds
   the type of its value: "Date", "string" (the ISO text of a date) or
   "null" (never set) *)

\* JSON.stringify writes a Date as its ISO text and JSON.parse reads that
\* text back as a string (part_001 35, 47)
ParseDate(timestamp) == IF timestamp = "Date" THEN "string" ELSE timestamp

\* new Date(text)
NewDate(timestamp) == "Date"

\* one element of JSON.parse(data): every timestamp of the tournament and of
\* its matches as JSON.parse returns it
ParseTournament(tournament) ==
  [tournament EXCEPT
     !.updatedAt = ParseDate(@),
     !.completedAt = ParseDate(@),
     !.matches = [i \in DOMAIN @ |-> [@[i] EXCEPT !.completedAt = ParseDate(@)]]]

\* loadTournaments (49-63): the fields turned back into Date objects
\* (tournament.updatedAt here; completedAt is not among them)
ReviveTournament(parsed) == [parsed EXCEPT !.updatedAt = NewDate(@)]

\* initialize (9-21) over loadAllData: every tournament of every guild file,
\* set into the empty Map of a new process under its id
initialize(files) ==
  LET ids == UNION {DOMAIN files[g] : g \in DOMAIN files}
      fileOf(id) == CHOOSE g \in DOMAIN files : id \in DOMAIN files[g]
  IN [id \in ids |-> ReviveTournament(ParseTournament(files[fileOf(id)][id]))]

\* the process ends and a new one starts: initialize() rebuilds the registry
Restart ==
  /\ tournaments' = initialize(stored)
  /\ lastResult' = Result("initialize", Ok)
  /\ UNCHANGED <<stored, progress, rounds1, rounds2, scoreOut, inflight, writable, verification, players, guildPlayers, registering>>

\* getCompletedTournaments (344-351): Array.prototype.sort calls the
\* comparator once there are two elements, and completedAt!.getTime() throws
\* a TypeError on a value that is no Date
getCompletedTournaments(registry, guildId) ==
  LET completed == {id \in DOMAIN registry :
                      /\ registry[id].guildId = guildId
                      /\ registry[id].status = "completed"}
  IN IF /\ Cardinality(completed) >= 2
        /\ \E id \in completed : registry[id].completedAt # "Date"
       THEN "TypeError" ELSE Ok

\* the tournament list command asking for the completed tournaments
ListCompleted(guildId) ==
  /\ lastResult' = Result("getCompletedTournaments",
                          getCompletedTournaments(tournaments, guildId))
  /\ UNCHANGED <<tournaments, stored, progress, rounds1, rounds2, scoreOut,
                 inflight, writable, verification, players, guildPlayers, registering>>

\* scores reported in SpecRestart: a home win and a pair the rule rejects
RestartScores == {<<13, 7>>, <<13, 12>>}

NextRestart ==
  \/ \E name \in CreateNames, now \in OverlapClockReadings :
       Create(name, OverlapTeamCount, TheGuild, now)
  \/ \E tid \in TournamentIds : StartRegistration(tid)
  \/ \E tid \in TournamentIds : \E name \in NameInputs(tid) : RegisterTeam(tid, name)
  \/ \E tid \in TournamentIds : \E shuffle \in OverlapShuffleInputs(tid) :
       StartTournament(tid, shuffle)
  \/ \E tid \in TournamentIds : \E mid \in MatchIdInputs(tid) : \E score \in RestartScores :
       ReportMatchResult(tid, mid, score[1], score[2])
  \/ Restart
  \/ ListCompleted(TheGuild)

SpecRestart == Init /\ [][NextRestart]_vars

----------------------------------------------------------------------------
(* Identity verification: RiotApiService.verifyRiotId over makeRequest *)

\* riotConfig rateLimit.maxRetries
maxRetries == 3

\* verifyRiotId line 178
regions == <<"americas", "europe", "asia">>

\* what one GET comes back with: 200 and the account, an error status, or no
\* response at all (timeout, network error: axiosError.response is undefined)
NoResponse == 0
ResponseStatuses == {200, 401, 404, 429, 500, NoResponse}

\* handleRateLimit (74-84): waits and answers true on a 429 and only then
handleRateLimit(status) == status = 429

ShouldRetry_AtMost(status, retries) == handleRateLimit(status) /\ retries <= maxRetries

\* makeRequest line 105: the request is sent again
ShouldRetry(status, retries) == handleRateLimit(status) /\ retries < maxRetries

\* makeRequest lines 110-120: the failure it returns (status || 0)
RequestFailure(status) == [success |-> FALSE, code |-> status]

\* verifyRiotId lines 206-212: the failure after the loop over the regions
AllRegionsFailed(results) == [success |-> FALSE, code |-> 404, region |-> NoName]

\* validateConnection (317-337) over the result of its verifyRiotId call
ConnectionResult(result) ==
  IF ~result.success /\ result.code = 404 THEN [success |-> TRUE, code |-> 0]
  ELSE IF result.success THEN [success |-> TRUE, code |-> 0]
  ELSE [success |-> FALSE, code |-> result.code]

\* the call returns result to its caller
Returned(call, result) ==
  [call EXCEPT !.phase = "done",
               !.result = result,
               !.connection = IF call.caller = "validateConnection"
                                THEN ConnectionResult(result) ELSE @]

\* verifyRiotId (145-183) up to its first GET
BeginVerify(caller, validId, validKey) ==
  LET call == [NoVerification EXCEPT !.caller = caller,
                                     !.validId = validId,
                                     !.validKey = validKey]
  IN IF ~validId
       THEN Returned(call, [success |-> FALSE, code |-> 400, region |-> NoName])
     ELSE IF ~validKey
       THEN Returned(call, [success |-> FALSE, code |-> 401, region |-> NoName])
     ELSE [call EXCEPT !.phase = "requesting", !.region = 1, !.responses = <<<<>>>>]

\* a command calls verifyRiotId(riotId) (part_002 515, 616)
VerifyRiotId(validId, validKey) ==
  /\ verification.phase # "requesting"
  /\ verification' = BeginVerify("verifyRiotId", validId, validKey)
  /\ UNCHANGED <<tournaments, stored, lastResult, progress, rounds1, rounds2,
                 scoreOut, inflight, writable, players, guildPlayers, registering>>

\* validateConnection (301-315): the key test, then verifyRiotId of
\* 'TestPlayer#1234', which is a valid Riot ID
ValidateConnection(validKey) ==
  /\ verification.phase # "requesting"
  /\ verification' =
       IF ~validKey
         THEN [NoVerification EXCEPT !.caller = "validateConnection",
                                     !.validKey = FALSE,
                                     !.phase = "done",
                                     !.connection = [success |-> FALSE, code |-> 401]]
         ELSE BeginVerify("validateConnection", TRUE, TRUE)
  /\ UNCHANGED <<tournaments, stored, lastResult, progress, rounds1, rounds2,
                 scoreOut, inflight, writable, players, guildPlayers, registering>>

\* the GET under way comes back with status: makeRequest (86-122) and the
\* body of the loop of verifyRiotId (180-204)
Respond(status) ==
  /\ verification.phase = "requesting"
  /\ LET call == [verification EXCEPT
                    !.responses[verification.region] = Append(@, status)]
     IN verification' =
          IF status = 200
            THEN Returned([call EXCEPT !.results = Append(@, 200)],
                          [success |-> TRUE, code |-> 0,
                           region |-> regions[call.region]])
          ELSE IF ShouldRetry(status, call.retries)
            THEN [call EXCEPT !.retries = @ + 1]
          ELSE LET failed == [call EXCEPT
                                !.results = Append(@, RequestFailure(status).code)]
               IN IF call.region < Len(regions)
                    THEN [failed EXCEPT !.region = @ + 1,
                                        !.retries = 0,
                                        !.responses = Append(@, <<>>)]
                    ELSE Returned(failed, AllRegionsFailed(failed.results))
  /\ UNCHANGED <<tournaments, stored, lastResult, progress, rounds1, rounds2,
                 scoreOut, inflight, writable, players, guildPlayers, registering>>

NextVerify ==
  \/ \E validId \in BOOLEAN, validKey \in BOOLEAN : VerifyRiotId(validId, validKey)
  \/ \E validKey \in BOOLEAN : ValidateConnection(validKey)
  \/ \E status \in ResponseStatuses : Respond(status)

SpecVerify == Init /\ [][NextVerify]_vars

\* every GET comes back: axios answers or gives up after its timeout of 10 s
\* (line 49)
SpecVerifyFair ==
  SpecVerify /\ WF_vars(\E status \in ResponseStatuses : Respond(status))

----------------------------------------------------------------------------
(* Player links: PlayerDataService and the /player commands (part_002)  *)

DiscordIds == {"u1", "u2"}
RiotIds == {"Ace#0001", "Bob#0002"}
PlayerGuilds == {"g1", "g2"}

\* player commands that may be suspended at their await together
MaxRegistering == 2

\* PlayerProfile (part_002 545-554), the fields the links are read from
PlayerProfile(discordId, riotId) == [discordId |-> discordId, riotId |-> riotId]

\* Map.delete
MapDelete(map, key) == [k \in DOMAIN map \ {key} |-> map[k]]

\* findPlayerByRiotId (400-408): the map of the guild when the guild has
\* one, else the map of all players; the set of the users found, empty
\* where the code returns undefined
findPlayerByRiotId(riotId, guildId) ==
  LET searched == IF guildId \in DOMAIN guildPlayers
                    THEN guildPlayers[guildId]
                    ELSE players
  IN {discordId \in DOMAIN searched : searched[discordId].riotId = riotId}

\* savePlayer (357-369): both maps take the profile under its discordId;
\* the write of the guild's file that follows changes neither map
savePlayer(player, guildId) ==
  /\ players' = (player.discordId :> player) @@ players
  /\ guildPlayers' =
       LET guildPlayerMap == IF guildId \in DOMAIN guildPlayers
                               THEN guildPlayers[guildId]
                               ELSE <<>>
       IN (guildId :> ((player.discordId :> player) @@ guildPlayerMap))
            @@ guildPlayers

\* deletePlayer (384-398): the user leaves the map of all players and the
\* map of the guild the command came from
deletePlayer(discordId, guildId) ==
  /\ players' = MapDelete(players, discordId)
  /\ guildPlayers' =
       IF guildId \in DOMAIN guildPlayers
         THEN [guildPlayers EXCEPT ![guildId] = MapDelete(@, discordId)]
         ELSE guildPlayers

\* handleRegisterCommand up to its first await (472-513): the two duplicate
\* checks answer at once; a command that passes both is suspended at
\* deferReply and verifyRiotId
BeginRegister(discordId, riotId, guildId) ==
  /\ Cardinality(registering) < MaxRegistering
  /\ IF discordId \in DOMAIN players
       THEN /\ lastResult' = Result("register", "AlreadyRegistered")
            /\ UNCHANGED registering
     ELSE IF findPlayerByRiotId(riotId, guildId) # {}
       THEN /\ lastResult' = Result("register", "RiotIdInUse")
            /\ UNCHANGED registering
     ELSE /\ registering' = registering \cup
                {[command |-> "register",
                  player |-> PlayerProfile(discordId, riotId),
                  guildId |-> guildId]}
          /\ UNCHANGED lastResult
  /\ UNCHANGED <<tournaments, stored, progress, rounds1, rounds2, scoreOut,
                 inflight, writable, verification, players, guildPlayers>>

\* handleVerifyCommand up to its first await (595-616): the profile of the
\* user is read, then the command is suspended at deferReply and verifyRiotId
BeginReverify(discordId, guildId) ==
  /\ Cardinality(registering) < MaxRegistering
  /\ IF discordId \notin DOMAIN players
       THEN /\ lastResult' = Result("verify", "NotRegistered")
            /\ UNCHANGED registering
     ELSE /\ registering' = registering \cup
                {[command |-> "verify",
                  player |-> players[discordId],
                  guildId |-> guildId]}
          /\ UNCHANGED lastResult
  /\ UNCHANGED <<tournaments, stored, progress, rounds1, rounds2, scoreOut,
                 inflight, writable, verification, players, guildPlayers>>

\* verifyRiotId has returned to a suspended command (515-559, 616-634):
\* on failure the command answers and stops, on success it saves the profile
\* it holds, with no second look at the maps
FinishRegister(call, verified) ==
  /\ call \in registering
  /\ registering' = registering \ {call}
  /\ IF verified
       THEN /\ savePlayer(call.player, call.guildId)
            /\ lastResult' = Result(call.command, Ok)
       ELSE /\ lastResult' = Result(call.command, "VerificationFailed")
            /\ UNCHANGED <<players, guildPlayers>>
  /\ UNCHANGED <<tournaments, stored, progress, rounds1, rounds2, scoreOut,
                 inflight, writable, verification>>

\* handleUnlinkCommand (722-751)
Unlink(discordId, guildId) ==
  /\ IF discordId \notin DOMAIN players
       THEN /\ lastResult' = Result("unlink", "NotRegistered")
            /\ UNCHANGED <<players, guildPlayers>>
       ELSE /\ deletePlayer(discordId, guildId)
            /\ lastResult' = Result("unlink", Ok)
  /\ UNCHANGED <<tournaments, stored, progress, rounds1, rounds2, scoreOut,
                 inflight, writable, verification, registering>>

NextPlayers ==
  \/ \E discordId \in DiscordIds, riotId \in RiotIds, guildId \in PlayerGuilds :
       BeginRegister(discordId, riotId, guildId)
  \/ \E discordId \in DiscordIds, guildId \in PlayerGuilds :
       BeginReverify(discordId, guildId)
  \/ \E call \in registering, verified \in BOOLEAN : FinishRegister(call, verified)
  \/ \E discordId \in DiscordIds, guildId \in PlayerGuilds : Unlink(discordId, guildId)

SpecPlayers == Init /\ [][NextPlayers]_vars

----------------------------------------------------------------------------
(* Properties *)

\* the accept rules of the score rule as the specification words them
AcceptRule(a, b) ==
  \/ a > b /\ ((a = 13 /\ b <= 11) \/ (b >= 12 /\ a - b >= 2))
  \/ b > a /\ ((b = 13 /\ a <= 11) \/ (a >= 12 /\ b - a >= 2))

ScoreEvaluated ==
  /\ scoreOut.pc = "done"
  /\ rounds1 \in 0..MaxScore
  /\ rounds2 \in 0..MaxScore

ScoreTable(a, b, expected) ==
  (rounds1 = a /\ rounds2 = b) => (scoreOut.valid = expected)

C2_WinnerSide ==
  ScoreEvaluated =>
    /\ (scoreOut.winner = "none") <=> ~scoreOut.valid
    /\ (scoreOut.valid /\ rounds1 > rounds2) => scoreOut.winner = "home"
    /\ (scoreOut.valid /\ rounds1 < rounds2) => scoreOut.winner = "away"

C2_Witness == ScoreEvaluated /\ rounds1 = 12 /\ rounds2 = 14 /\ scoreOut.winner = "away"

MatchesOf(tid) == tournaments[tid].matches

\* C3: every completed match has both team references, both scores forming a
\* valid pair, and a winner that is the home team when the home score is
\* higher and the away team otherwise.
C3_CompletedMatch ==
  \A tid \in DOMAIN tournaments : \A i \in DOMAIN MatchesOf(tid) :
    LET m == MatchesOf(tid)[i]
    IN m.status = "completed" =>
         /\ m.homeTeamId # Null
         /\ m.awayTeamId # Null
         /\ m.homeRounds # Null
         /\ m.awayRounds # Null
         /\ AcceptRule(m.homeRounds, m.awayRounds)
         /\ m.winnerId # Null
         /\ m.winnerId = IF m.homeRounds > m.awayRounds THEN m.homeTeamId ELSE m.awayTeamId

C3_Witness ==
  \E tid \in DOMAIN tournaments : \E i \in DOMAIN MatchesOf(tid) :
    LET m == MatchesOf(tid)[i]
    IN /\ m.status = "completed"
       /\ m.stage = 2
       /\ m.homeRounds < m.awayRounds
       /\ m.winnerId = m.awayTeamId

\* log2 of the team counts the create command offers
RoundsFor(n) == CASE n = 4 -> 2 [] n = 8 -> 3 [] n = 16 -> 4 [] OTHER -> 0

Started(tid) == tournaments[tid].status \in {"active", "completed"}

MatchIndexesAt(matches, stage, position) ==
  {i \in DOMAIN matches : matches[i].stage = stage /\ matches[i].stagePosition = position}

MatchIds(matches) == {matches[i].id : i \in DOMAIN matches}

\* C4: for N in {4, 8, 16} teams the bracket has N-1 matches, one match for
\* every (stage, position) with stage in 1..log2(N) and position in
\* 1..2^(log2(N)-stage), one match without forward link, which is the match
\* of the last stage, and every other forward link is the id of a match of
\* the bracket.
C4_BracketShape ==
  \A tid \in DOMAIN tournaments :
    Started(tid) =>
      LET matches == MatchesOf(tid)
          n == Len(tournaments[tid].teams)
          rounds == RoundsFor(n)
          unlinked == {i \in DOMAIN matches : matches[i].nextMatchId = Null}
      IN /\ n \in TeamCountChoices
         /\ Len(matches) = n - 1
         /\ \A stage \in 1..rounds : \A position \in 1..Pow2(rounds - stage) :
              Cardinality(MatchIndexesAt(matches, stage, position)) = 1
         /\ Cardinality(unlinked) = 1
         /\ \A i \in unlinked : matches[i].stage = rounds /\ matches[i].stagePosition = 1
         /\ \A i \in (DOMAIN matches) \ unlinked :
              /\ matches[i].nextMatchId \in MatchIds(matches)
              /\ matches[i].nextMatchId # matches[i].id
         /\ Cardinality(MatchIds(matches)) = Len(matches)

C4_Witness ==
  \E tid \in DOMAIN tournaments :
    /\ Started(tid)
    /\ Len(tournaments[tid].teams) = 16
    /\ Len(MatchesOf(tid)) = 15

\* the match a forward link points to (FALSE-valued test when there is none)
LinksTo(matches, i, j) ==
  matches[i].nextMatchId # Null /\ matches[i].nextMatchId = matches[j].id

\* the index reached from match i by following k forward links, 0 if a link
\* is missing on the way
RECURSIVE Follow(_, _, _)
Follow(matches, i, k) ==
  IF k = 0 THEN i
  ELSE IF \E j \in DOMAIN matches : LinksTo(matches, i, j)
    THEN Follow(matches, CHOOSE j \in DOMAIN matches : LinksTo(matches, i, j), k - 1)
    ELSE 0

\* C5: the match at stage r < totalRounds and position p links to the match
\* at stage r+1 and position ceil(p/2); every match of stage >= 2 at position
\* q is the target of exactly the two matches of the previous stage at
\* positions 2q-1 and 2q; the links form a binary tree rooted at the final.
C5_ForwardLinks ==
  \A tid \in DOMAIN tournaments :
    Started(tid) =>
      LET matches == MatchesOf(tid)
          rounds == RoundsFor(Len(tournaments[tid].teams))
      IN /\ \A i \in DOMAIN matches :
              matches[i].stage < rounds =>
                \E j \in DOMAIN matches :
                  /\ LinksTo(matches, i, j)
                  /\ matches[j].stage = matches[i].stage + 1
                  /\ 2 * matches[j].stagePosition - 1 <= matches[i].stagePosition
                  /\ matches[i].stagePosition <= 2 * matches[j].stagePosition
         /\ \A j \in DOMAIN matches :
              matches[j].stage >= 2 =>
                {i \in DOMAIN matches : LinksTo(matches, i, j)}
                  = MatchIndexesAt(matches, matches[j].stage - 1,
                                   2 * matches[j].stagePosition - 1)
                    \cup MatchIndexesAt(matches, matches[j].stage - 1,
                                        2 * matches[j].stagePosition)
         /\ \A j \in DOMAIN matches :
              matches[j].stage >= 2 =>
                Cardinality({i \in DOMAIN matches : LinksTo(matches, i, j)}) = 2
         /\ \A i \in DOMAIN matches :
              LET root == Follow(matches, i, rounds - matches[i].stage)
              IN /\ root # 0
                 /\ matches[root].stage = rounds
                 /\ matches[root].nextMatchId = Null

C5_Witness ==
  \E tid \in DOMAIN tournaments :
    /\ Started(tid)
    /\ Len(tournaments[tid].teams) = 16
    /\ \E i, j \in DOMAIN MatchesOf(tid) :
         /\ MatchesOf(tid)[i].stage = 2
         /\ MatchesOf(tid)[i].stagePosition = 3
         /\ MatchesOf(tid)[j].stage = 3
         /\ MatchesOf(tid)[j].stagePosition = 2
         /\ LinksTo(MatchesOf(tid), i, j)

\* the (match, side) slots of stage 1 a team occupies
StageOneSlots(matches, teamId) ==
  {<<i, "home">> : i \in {k \in DOMAIN matches :
                            matches[k].stage = 1 /\ matches[k].homeTeamId = teamId}}
  \cup {<<i, "away">> : i \in {k \in DOMAIN matches :
                                 matches[k].stage = 1 /\ matches[k].awayTeamId = teamId}}

\* C6: right after start-tournament (SpecSetup reports no result) every
\* stage-1 match is ready with both teams, every later match is pending with
\* both slots null, and every registered team occupies exactly one slot of
\* exactly one stage-1 match.
C6_InitialBracket ==
  \A tid \in DOMAIN tournaments :
    Started(tid) =>
      LET matches == MatchesOf(tid)
          teams == tournaments[tid].teams
      IN /\ \A i \in DOMAIN matches :
              IF matches[i].stage = 1
                THEN /\ matches[i].status = "ready"
                     /\ matches[i].homeTeamId # Null
                     /\ matches[i].awayTeamId # Null
                ELSE /\ matches[i].status = "pending"
                     /\ matches[i].homeTeamId = Null
                     /\ matches[i].awayTeamId = Null
         /\ \A k \in DOMAIN teams :
              Cardinality(StageOneSlots(matches, teams[k].id)) = 1

C6_Witness ==
  \E tid \in DOMAIN tournaments :
    /\ tournaments[tid].status = "active"
    /\ lastResult = Result("startTournament", Ok)
    /\ Len(tournaments[tid].teams) = 8
    /\ MatchesOf(tid)[1].homeTeamId # tournaments[tid].teams[1].id

\* the index of the match with the given id
IndexOfId(matches, id) == CHOOSE j \in DOMAIN matches : matches[j].id = id

EmptySlots(match) ==
  (IF match.homeTeamId = Null THEN 1 ELSE 0) + (IF match.awayTeamId = Null THEN 1 ELSE 0)

\* the step from tournament t to u reports match i, and i has a forward link
ReportsLinkedMatch(t, u, i) ==
  /\ DOMAIN u.matches = DOMAIN t.matches
  /\ t.matches[i].status # "completed"
  /\ u.matches[i].status = "completed"
  /\ t.matches[i].nextMatchId # Null

\* what claim C7 says of such a step
SeatsWinner(t, u, i) ==
  LET winner == u.matches[i].winnerId
      j == IndexOfId(t.matches, t.matches[i].nextMatchId)
      before == t.matches[j]
      after == u.matches[j]
      siblings == {k \in DOMAIN t.matches :
                     k # i /\ t.matches[k].nextMatchId = t.matches[i].nextMatchId}
      tookHome == /\ before.homeTeamId = Null
                  /\ after.homeTeamId = winner
                  /\ after.awayTeamId = before.awayTeamId
      tookAway == /\ before.awayTeamId = Null
                  /\ after.awayTeamId = winner
                  /\ after.homeTeamId = before.homeTeamId
  IN /\ winner # Null
     /\ tookHome \/ tookAway
     /\ EmptySlots(after) = EmptySlots(before) - 1
     /\ before.status = "pending"
     /\ Cardinality(siblings) = 1
     /\ \A k \in siblings :
          IF t.matches[k].status = "completed"
            THEN /\ after.status = "ready"
                 /\ {after.homeTeamId, after.awayTeamId}
                      = {winner, t.matches[k].winnerId}
                 /\ after.homeTeamId # after.awayTeamId
            ELSE /\ after.status = "pending"
                 /\ EmptySlots(after) = 1

\* C7: completing a match that has a forward link fills exactly one empty
\* slot of the linked match with the winner and leaves it pending; completing
\* the sibling fills the other slot with its winner and turns the linked
\* match from pending to ready.
C7_Propagation ==
  [][\A tid \in (DOMAIN tournaments) \cap (DOMAIN tournaments') :
       \A i \in DOMAIN tournaments[tid].matches :
         ReportsLinkedMatch(tournaments[tid], tournaments'[tid], i)
           => SeatsWinner(tournaments[tid], tournaments'[tid], i)]_vars

C7_Witness ==
  \E tid \in DOMAIN tournaments : \E i, j \in DOMAIN MatchesOf(tid) :
    /\ lastResult = Result("report", Ok)
    /\ MatchesOf(tid)[i].stage = 2
    /\ MatchesOf(tid)[i].status = "ready"
    /\ MatchesOf(tid)[i].homeTeamId # Null
    /\ MatchesOf(tid)[i].awayTeamId # Null
    /\ MatchesOf(tid)[j].stage = 2
    /\ MatchesOf(tid)[j].status = "pending"
    /\ EmptySlots(MatchesOf(tid)[j]) = 1

\* the winner of the match at (stage, position), Null when it has none
WinnerAt(matches, stage, position) ==
  IF MatchIndexesAt(matches, stage, position) = {} THEN Null
  ELSE matches[CHOOSE i \in MatchIndexesAt(matches, stage, position) : TRUE].winnerId

\* C8: for every match of stage >= 2 at position p, whatever the order of the
\* reports, a non-null home team is the winner of the previous stage's match
\* at position 2p-1 and a non-null away team is the winner of the previous
\* stage's match at position 2p.
C8_UpperFeederHome ==
  \A tid \in DOMAIN tournaments : \A i \in DOMAIN MatchesOf(tid) :
    LET m == MatchesOf(tid)[i]
    IN m.stage >= 2 =>
         /\ m.homeTeamId # Null =>
              m.homeTeamId = WinnerAt(MatchesOf(tid), m.stage - 1, 2 * m.stagePosition - 1)
         /\ m.awayTeamId # Null =>
              m.awayTeamId = WinnerAt(MatchesOf(tid), m.stage - 1, 2 * m.stagePosition)

\* tournament tid holds a completed match with id mid
HoldsCompleted(tid, mid) ==
  /\ tid \in DOMAIN tournaments
  /\ \E i \in DOMAIN MatchesOf(tid) :
       MatchesOf(tid)[i].id = mid /\ MatchesOf(tid)[i].status = "completed"

\* C9: for every match of a tournament, the final included, a second report
\* with a valid score on a match already reported fails with AlreadyCompleted
\* and leaves the match, and the whole registry, as it was.
C9_SecondReport ==
  [][\A tid \in DOMAIN tournaments : \A mid \in MatchIds(MatchesOf(tid)) :
       \A score \in ReportScores :
         ( /\ HoldsCompleted(tid, mid)
           /\ AcceptRule(score[1], score[2])
           /\ ReportMatchResult(tid, mid, score[1], score[2]) )
         => /\ lastResult'.error = "AlreadyCompleted"
            /\ tournaments' = tournaments]_vars

FinalIndexes(tid) ==
  {i \in DOMAIN MatchesOf(tid) : MatchesOf(tid)[i].stage = tournaments[tid].totalStages}

\* C10: a tournament is completed exactly when its final (stage =
\* totalStages) is completed; then all capacity-1 matches are completed, the
\* champion reported is the final's winner and the runner-up reported is the
\* other finalist, different from the champion.
C10_Completion ==
  \A tid \in DOMAIN tournaments :
    LET t == tournaments[tid]
        finalDone == \E i \in FinalIndexes(tid) : t.matches[i].status = "completed"
    IN /\ (t.status = "completed") <=> finalDone
       /\ t.status = "completed" =>
            /\ Len(t.matches) = t.teamCount - 1
            /\ \A i \in DOMAIN t.matches : t.matches[i].status = "completed"
            /\ Cardinality(FinalIndexes(tid)) = 1
       /\ (t.status = "completed" /\ progress.tournamentId = tid) =>
            \A i \in FinalIndexes(tid) :
              LET final == t.matches[i]
                  other == IF final.winnerId = final.homeTeamId
                             THEN final.awayTeamId ELSE final.homeTeamId
              IN /\ progress.isCompleted
                 /\ final.winnerId \in {final.homeTeamId, final.awayTeamId}
                 /\ progress.champion = TeamNameOf(t.teams, final.winnerId)
                 /\ progress.runnerUp = TeamNameOf(t.teams, other)
                 /\ progress.champion # NoName
                 /\ progress.runnerUp # NoName
                 /\ progress.runnerUp # progress.champion

C10_Witness ==
  \E tid \in DOMAIN tournaments :
    /\ tournaments[tid].status = "completed"
    /\ tournaments[tid].teamCount = 8
    /\ progress.tournamentId = tid
    /\ progress.isCompleted
    /\ progress.champion # NoName

StatusRank(status) ==
  CASE status = "draft" -> 1
    [] status = "registration" -> 2
    [] status = "active" -> 3
    [] status = "completed" -> 4
    [] OTHER -> 0

\* the step moves tournament tid from status `from` to status `to`
StatusMoves(tid, from, to) ==
  /\ tid \in (DOMAIN tournaments) \cap (DOMAIN tournaments')
  /\ tournaments[tid].status = from
  /\ tournaments'[tid].status = to

\* C11: a tournament is created in draft and its status only moves draft ->
\* registration -> active -> completed, one step at a time; the step from
\* draft is a successful start-registration and a successful
\* start-registration is such a step, the step from registration is a
\* successful start-tournament and a successful start-tournament is such a
\* step, the step from active is a successful report; no step moves a
\* tournament to an earlier status, skips a status or removes a tournament.
C11_StatusOrder ==
  [][/\ DOMAIN tournaments \subseteq DOMAIN tournaments'
     /\ \A tid \in (DOMAIN tournaments') \ (DOMAIN tournaments) :
          tournaments'[tid].status = "draft"
     /\ \A tid \in DOMAIN tournaments :
          LET from == StatusRank(tournaments[tid].status)
              to == StatusRank(tournaments'[tid].status)
          IN /\ from >= 1
             /\ to \in {from, from + 1}
             /\ to <= 4
     /\ \A tid \in DOMAIN tournaments :
          /\ StatusMoves(tid, "draft", "registration")
               => lastResult' = Result("startRegistration", Ok)
          /\ StatusMoves(tid, "registration", "active")
               => lastResult' = Result("startTournament", Ok)
          /\ StatusMoves(tid, "active", "completed")
               => lastResult' = Result("report", Ok)
     /\ lastResult' = Result("startRegistration", Ok)
          => \E tid \in DOMAIN tournaments : StatusMoves(tid, "draft", "registration")
     /\ lastResult' = Result("startTournament", Ok)
          => \E tid \in DOMAIN tournaments : StatusMoves(tid, "registration", "active")
    ]_vars

C11_Witness ==
  \E tid \in DOMAIN tournaments :
    /\ tournaments[tid].status = "completed"
    /\ lastResult = Result("startRegistration", "NotDraft")

\* in every state a match that is not completed is ready exactly when both of
\* its team slots are filled, and no match is in_progress
MatchReadiness ==
  \A tid \in DOMAIN tournaments : \A i \in DOMAIN MatchesOf(tid) :
    LET m == MatchesOf(tid)[i]
    IN /\ m.status \in {"pending", "ready", "completed"}
       /\ m.status # "completed" =>
            ((m.status = "ready") <=> (m.homeTeamId # Null /\ m.awayTeamId # Null))

\* what a step may do to the status of the match before, which it leaves as after
MatchStatusStep(before, after) ==
  /\ before.status = "pending" =>
       /\ after.status \in {"pending", "ready"}
       /\ (after.status = "ready") <=> (EmptySlots(before) = 1 /\ EmptySlots(after) = 0)
  /\ before.status = "ready" =>
       /\ after.status \in {"ready", "completed"}
       /\ after.status = "completed" => lastResult' = Result("report", Ok)
  /\ before.status = "completed" => after.status = "completed"

\* C12: the status of a match only moves pending -> ready -> completed: a
\* pending match becomes ready exactly in the step that fills its second
\* slot, a match becomes completed only from ready and only by a successful
\* report, a completed match stays completed, no match is ever in_progress,
\* and in every state a match that is not completed is ready if and only if
\* both of its team slots are non-null.
C12_MatchStatus ==
  /\ []MatchReadiness
  /\ [][\A tid \in (DOMAIN tournaments) \cap (DOMAIN tournaments') :
         /\ Started(tid) => DOMAIN tournaments'[tid].matches = DOMAIN MatchesOf(tid)
         /\ \A i \in (DOMAIN MatchesOf(tid)) \cap (DOMAIN tournaments'[tid].matches) :
              MatchStatusStep(MatchesOf(tid)[i], tournaments'[tid].matches[i])]_vars

C12_Witness ==
  \E tid \in DOMAIN tournaments : \E i, j \in DOMAIN MatchesOf(tid) :
    /\ lastResult = Result("report", Ok)
    /\ MatchesOf(tid)[i].stage = 2
    /\ MatchesOf(tid)[i].status = "completed"
    /\ MatchesOf(tid)[j].stage = 3
    /\ MatchesOf(tid)[j].status = "pending"
    /\ EmptySlots(MatchesOf(tid)[j]) = 1

StageBounds ==
  \A tid \in DOMAIN tournaments :
    /\ 1 <= tournaments[tid].currentStage
    /\ tournaments[tid].currentStage <= tournaments[tid].totalStages

\* the stages of tournament t that still hold a match that is not completed
OpenStages(t) ==
  {t.matches[i].stage : i \in {k \in DOMAIN t.matches : t.matches[k].status # "completed"}}

\* min(lowest stage with a non-completed match, totalStages)
LowestOpenStage(t) ==
  IF OpenStages(t) = {} THEN t.totalStages
  ELSE Min(CHOOSE x \in OpenStages(t) : \A y \in OpenStages(t) : x <= y, t.totalStages)

\* C13: in every state 1 <= currentStage <= totalStages; after every
\* successful report the currentStage of the reported tournament is the
\* lowest stage that still holds a non-completed match, capped at
\* totalStages (totalStages when every match is completed); and no step
\* lowers the currentStage of a tournament.
C13_CurrentStage ==
  /\ []StageBounds
  /\ [][\A tid \in (DOMAIN tournaments) \cap (DOMAIN tournaments') :
         /\ tournaments'[tid].currentStage >= tournaments[tid].currentStage
         /\ (lastResult' = Result("report", Ok) /\ tournaments'[tid] # tournaments[tid])
              => tournaments'[tid].currentStage = LowestOpenStage(tournaments'[tid])]_vars

C13_Witness ==
  \E tid \in DOMAIN tournaments :
    /\ lastResult = Result("report", Ok)
    /\ tournaments[tid].status = "active"
    /\ tournaments[tid].totalStages = 3
    /\ tournaments[tid].currentStage = 3
    /\ OpenStages(tournaments[tid]) = {3}

\* C14: a further call of checkTournamentProgress on a tournament, with no
\* successful report since the previous call on it, returns the same
\* isCompleted, currentRound, totalRounds, champion and runner-up as the
\* previous call and leaves the status, the currentStage and every match of
\* the tournament as they were, before and after the tournament is completed.
C14_ProgressIdempotent ==
  [][\A tid \in DOMAIN tournaments :
       CheckTournamentProgress(tid) =>
         /\ tournaments' = tournaments
         /\ progress'.tournamentId = tid
         /\ progress.tournamentId = tid => progress' = progress]_vars

C14_Witness ==
  \E tid \in DOMAIN tournaments :
    /\ lastResult = Result("checkProgress", Ok)
    /\ tournaments[tid].status = "completed"
    /\ progress.tournamentId = tid
    /\ progress.isCompleted
    /\ progress.currentRound = tournaments[tid].totalStages
    /\ progress.runnerUp # NoName

\* the part of a bracket that generateBracket fixes: ids, stages, positions
\* and forward links, in array order
Skeleton(matches) ==
  [i \in DOMAIN matches |->
     <<matches[i].id, matches[i].stage, matches[i].stagePosition, matches[i].nextMatchId>>]

MatchCount ==
  \A tid \in DOMAIN tournaments :
    IF Started(tid)
      THEN Len(MatchesOf(tid)) = tournaments[tid].teamCount - 1
      ELSE MatchesOf(tid) = <<>>

\* C15: a tournament in draft or registration has no matches and one in
\* active or completed has exactly capacity-1; the matches appear in the
\* step of a successful start-tournament, which happens at most once per
\* tournament (a started tournament refuses it), and from then on no step
\* adds, removes or re-links a match or changes its id, stage or position.
C15_BracketFixed ==
  /\ []MatchCount
  /\ [][\A tid \in (DOMAIN tournaments) \cap (DOMAIN tournaments') :
         /\ Started(tid) =>
              /\ Skeleton(tournaments'[tid].matches) = Skeleton(MatchesOf(tid))
              /\ lastResult' # Result("startTournament", Ok)
         /\ (~Started(tid) /\ tournaments'[tid].matches # <<>>)
              => lastResult' = Result("startTournament", Ok)]_vars

C15_Witness ==
  \E tid \in DOMAIN tournaments :
    /\ tournaments[tid].status = "completed"
    /\ tournaments[tid].teamCount = 8
    /\ Len(MatchesOf(tid)) = 7
    /\ lastResult = Result("startTournament", "NotRegistration")

TeamsWithinCapacity ==
  \A tid \in DOMAIN tournaments :
    Len(tournaments[tid].teams) <= tournaments[tid].teamCount

\* tournament tid is in registration and holds as many teams as its capacity
FullInRegistration(tid) ==
  /\ tid \in DOMAIN tournaments
  /\ tournaments[tid].status = "registration"
  /\ Len(tournaments[tid].teams) = tournaments[tid].teamCount

\* the register-team calls suspended at their storage await
SuspendedRegistrations(tid) ==
  {c \in inflight : c.op = "registerTeam" /\ c.tournamentId = tid}

NamesUnique ==
  /\ \A tid, uid \in DOMAIN tournaments :
       (tid # uid /\ tournaments[tid].guildId = tournaments[uid].guildId)
         => tournaments[tid].name # tournaments[uid].name
  /\ \A tid \in DOMAIN tournaments : \A i, j \in DOMAIN tournaments[tid].teams :
       i # j => tournaments[tid].teams[i].name # tournaments[tid].teams[j].name

\* the guild already has a tournament of that name
TournamentNameUsed(name, guildId) ==
  \E tid \in DOMAIN tournaments :
    tournaments[tid].name = name /\ tournaments[tid].guildId = guildId

\* tournament tid accepts teams and already has a team of that name
TeamNameUsed(tid, name) ==
  /\ tid \in DOMAIN tournaments
  /\ tournaments[tid].status = "registration"
  /\ Len(tournaments[tid].teams) < tournaments[tid].teamCount
  /\ \E i \in DOMAIN tournaments[tid].teams : tournaments[tid].teams[i].name = name

\* C17: with create and register-team calls overlapping at their storage
\* awaits, no two tournaments of a guild have the same name and no two teams
\* of a tournament have the same name; a create under a name the guild
\* already uses, and a register-team under a name the tournament already
\* uses (the tournament accepting teams), fail with DuplicateName and
\* change nothing, also while the call that took the name is suspended.
C17_UniqueNames ==
  /\ []NamesUnique
  /\ [][/\ \A name \in TournamentNames, now \in OverlapClockReadings :
            (TournamentNameUsed(name, TheGuild)
               /\ BeginCreate(name, OverlapTeamCount, TheGuild, now)) =>
              /\ lastResult' = Result("create", "DuplicateName")
              /\ tournaments' = tournaments
              /\ inflight' = inflight
        /\ \A tid \in DOMAIN tournaments : \A name \in NameInputs(tid) :
             (TeamNameUsed(tid, name) /\ BeginRegisterTeam(tid, name)) =>
               /\ lastResult' = Result("registerTeam", "DuplicateName")
               /\ tournaments' = tournaments
               /\ inflight' = inflight]_vars

C17_Witness ==
  \E tid \in DOMAIN tournaments : \E c \in SuspendedRegistrations(tid) :
    /\ TeamNameUsed(tid, c.arg)
    /\ lastResult = Result("registerTeam", "DuplicateName")
    /\ \E d \in inflight : d.op = "create"

StartedTournamentsFull ==
  \A tid \in DOMAIN tournaments :
    Started(tid) => Len(tournaments[tid].teams) = tournaments[tid].teamCount

\* C18: start-tournament succeeds only on a tournament in registration whose
\* team count equals its capacity; on a tournament in registration with
\* fewer teams it fails with IncompleteRoster, the error carrying the
\* shortfall capacity - team count, and leaves the registry as it was (no
\* matches, status registration); every active or completed tournament has
\* exactly capacity teams.
C18_StartNeedsFullRoster ==
  /\ []StartedTournamentsFull
  /\ [][\A tid \in DOMAIN tournaments : \A shuffle \in ShuffleInputs(tid) :
         StartTournament(tid, shuffle) =>
           LET t == tournaments[tid]
           IN /\ lastResult'.error = Ok =>
                   /\ t.status = "registration"
                   /\ Len(t.teams) = t.teamCount
                   /\ tournaments'[tid].status = "active"
              /\ (t.status = "registration" /\ Len(t.teams) < t.teamCount) =>
                   /\ lastResult'.error = "IncompleteRoster"
                   /\ lastResult'.remaining = t.teamCount - Len(t.teams)
                   /\ tournaments' = tournaments
                   /\ tournaments'[tid].matches = <<>>
                   /\ tournaments'[tid].status = "registration"]_vars

C18_Witness ==
  \E tid \in DOMAIN tournaments :
    /\ tournaments[tid].status = "registration"
    /\ tournaments[tid].teamCount = 8
    /\ Len(tournaments[tid].teams) = 5
    /\ lastResult.error = "IncompleteRoster"
    /\ lastResult.remaining = 3

\* C19: a successful create gives the new tournament an id that no
\* tournament of the registry has, also when it reads the same clock as an
\* earlier create; it leaves every tournament of the registry as it was and
\* the registry one tournament larger.
C19_FreshId ==
  [][\A name \in CreateNames, teamCount \in PlayTeamCounts, now \in ClockReadings :
       ( /\ Create(name, teamCount, TheGuild, now)
         /\ lastResult' = Result("create", Ok) )
       => /\ generateId(now) \notin DOMAIN tournaments
          /\ Cardinality(DOMAIN tournaments') = Cardinality(DOMAIN tournaments) + 1
          /\ \A tid \in DOMAIN tournaments :
               /\ tid \in DOMAIN tournaments'
               /\ tournaments'[tid] = tournaments[tid]]_vars

\* the number of completed matches of tournament t
CompletedCount(t) ==
  Cardinality({i \in DOMAIN t.matches : t.matches[i].status = "completed"})

\* a started tournament of capacity N has at most N-1 completed matches, and
\* is completed exactly when it has N-1; the champion then reported is the
\* winner of the final
ReportBudget ==
  \A tid \in DOMAIN tournaments :
    LET t == tournaments[tid]
    IN Started(tid) =>
         /\ CompletedCount(t) <= t.teamCount - 1
         /\ (t.status = "completed") <=> (CompletedCount(t) = t.teamCount - 1)
         /\ (t.status = "completed" /\ progress.tournamentId = tid) =>
              \A i \in FinalIndexes(tid) :
                progress.champion = TeamNameOf(t.teams, t.matches[i].winnerId)

\* C20: every successful report is made on an active tournament and raises
\* the number of its completed matches by exactly one, and nothing else
\* changes that number; a tournament of capacity N never has more than N-1
\* completed matches, so at most N-1 reports succeed; it is completed, with
\* the winner of the final as champion, exactly when N-1 have succeeded, and
\* from then on no report succeeds on it and no step changes it.
C20_ReportBudget ==
  /\ []ReportBudget
  /\ [][/\ lastResult' = Result("report", Ok) =>
            \E tid \in DOMAIN tournaments :
              /\ tournaments[tid].status = "active"
              /\ CompletedCount(tournaments'[tid]) = CompletedCount(tournaments[tid]) + 1
              /\ \A uid \in (DOMAIN tournaments) \ {tid} :
                   tournaments'[uid] = tournaments[uid]
        /\ \A tid \in (DOMAIN tournaments) \cap (DOMAIN tournaments') :
             CompletedCount(tournaments'[tid]) # CompletedCount(tournaments[tid])
               => lastResult' = Result("report", Ok)
        /\ \A tid \in (DOMAIN tournaments) \cap (DOMAIN tournaments') :
             tournaments[tid].status = "completed"
               => tournaments'[tid] = tournaments[tid]]_vars

C20_Witness ==
  \E tid \in DOMAIN tournaments :
    /\ tournaments[tid].teamCount = 4
    /\ tournaments[tid].status = "completed"
    /\ CompletedCount(tournaments[tid]) = 3
    /\ lastResult = Result("report", "NotActive")

\* the guilds that own a tournament of the registry
GuildsInMemory == {tournaments[tid].guildId : tid \in DOMAIN tournaments}

\* C21: with calls that do not overlap and writes that do not fail, after
\* every operation (create, start-registration, register-team,
\* start-tournament, report-match-result, delete) the stored snapshot of
\* every guild equals the guild's tournaments in memory.
C21_StoredIsMemory ==
  /\ GuildsInMemory \subseteq DOMAIN stored
  /\ \A g \in DOMAIN stored : stored[g] = list(tournaments, g)

\* the operations that write to storage
SavingOps == {"create", "startRegistration", "registerTeam", "startTournament", "report"}

\* the step is a call of a saving operation made while writes fail
CallWhileWriteFails ==
  /\ ~writable
  /\ ~writable'
  /\ lastResult'.op \in SavingOps
  /\ <<tournaments, lastResult>>' # <<tournaments, lastResult>>

\* C22: a call made while the storage write fails never returns a write
\* error; whenever it changes the registry it returns success, the change
\* stays in memory, and the file stays as it was.
C22_WriteFailureSwallowed ==
  [][CallWhileWriteFails =>
       /\ lastResult'.error # "WriteFailed"
       /\ tournaments' # tournaments => lastResult'.error = Ok
       /\ stored' = stored]_vars

C22_Witness ==
  \E tid \in DOMAIN tournaments :
    /\ ~writable
    /\ lastResult = Result("report", Ok)
    /\ tournaments[tid].status = "completed"
    /\ TheGuild \in DOMAIN stored
    /\ tid \in DOMAIN stored[TheGuild]
    /\ stored[TheGuild][tid].status = "registration"

----------------------------------------------------------------------------
(* C23 *)

\* every timestamp of the registry is a Date, or null where it was never set
TimestampsAreDates(registry) ==
  \A tid \in DOMAIN registry :
    /\ registry[tid].updatedAt = "Date"
    /\ registry[tid].completedAt \in {"Date", "null"}
    /\ \A i \in DOMAIN registry[tid].matches :
         registry[tid].matches[i].completedAt \in {"Date", "null"}

\* status, currentStage, teams and matches (timestamps aside) of a tournament
Content(tournament) ==
  [status |-> tournament.status,
   currentStage |-> tournament.currentStage,
   teams |-> tournament.teams,
   matches |-> [i \in DOMAIN tournament.matches |->
                  [tournament.matches[i] EXCEPT !.completedAt = "null"]]]

\* C23: a restart over the file saved last yields the same tournaments with
\* the same status, currentStage, teams and matches, every timestamp field
\* (the completion timestamps of completed tournaments and matches included)
\* is a timestamp again, and the listing of completed tournaments by
\* completion time works after the restart
C23_RestartRestores ==
  [][Restart =>
       /\ DOMAIN tournaments' = DOMAIN tournaments
       /\ \A tid \in DOMAIN tournaments :
            Content(tournaments'[tid]) = Content(tournaments[tid])
       /\ TimestampsAreDates(tournaments')
       /\ getCompletedTournaments(tournaments', TheGuild) = Ok]_vars

\* the part of C23 that the code keeps: a restart brings back the same
\* tournaments with the same status, currentStage, teams and matches
C23_ContentRestored ==
  [][Restart =>
       /\ DOMAIN tournaments' = DOMAIN tournaments
       /\ \A tid \in DOMAIN tournaments :
            Content(tournaments'[tid]) = Content(tournaments[tid])]_vars

\* after a restart the listing of two completed tournaments throws
C23_ListingThrows == lastResult = Result("getCompletedTournaments", "TypeError")

----------------------------------------------------------------------------
(* C24, C25 *)

\* statuses of rate limiting, a rejected key, a server error or no answer
UpstreamFailures == ResponseStatuses \ {200, 404}

\* C24: the failure verifyRiotId returns is classified by its cause: 400 for
\* a malformed Riot ID, 401 for a missing key; when the requests to all
\* regions failed by rate limiting past the retries, a rejected key or a
\* server error, the error returned is not the not-found error; not-found
\* is returned only when the service answered not-found
C24_ClassifiedByCause ==
  (verification.phase = "done" /\ verification.caller = "verifyRiotId"
     /\ ~verification.result.success) =>
    /\ ~verification.validId => verification.result.code = 400
    /\ (verification.validId /\ ~verification.validKey) =>
         verification.result.code = 401
    /\ verification.result.code = 404 =>
         \E i \in DOMAIN verification.results : verification.results[i] = 404
    /\ (/\ verification.results # <<>>
        /\ \A i \in DOMAIN verification.results :
             verification.results[i] \in UpstreamFailures) =>
         verification.result.code \in UpstreamFailures

\* the part of C24 that the code keeps: malformed input and a missing key
\* are reported as such, before any request is sent
C24_InputErrors ==
  (verification.phase = "done" /\ verification.caller = "verifyRiotId") =>
    /\ ~verification.validId =>
         verification.result.code = 400 /\ verification.responses = <<>>
    /\ (verification.validId /\ ~verification.validKey) =>
         verification.result.code = 401 /\ verification.responses = <<>>

\* validateConnection answers success although every region rejected the key
C24_RejectedKeyPasses ==
  /\ verification.phase = "done"
  /\ verification.caller = "validateConnection"
  /\ verification.connection.success
  /\ verification.results = <<401, 401, 401>>

\* GETs sent by the call so far
Sent == [i \in DOMAIN verification.responses |->
           Len(verification.responses[i]) +
             (IF verification.phase = "requesting" /\ i = verification.region
                THEN 1 ELSE 0)]

RECURSIVE SumSeq(_)
SumSeq(s) == IF s = <<>> THEN 0 ELSE Head(s) + SumSeq(Tail(s))

AttemptsBounded ==
  /\ Len(verification.responses) <= Len(regions)
  /\ \A i \in DOMAIN verification.responses :
       /\ Sent[i] <= maxRetries + 1
       /\ \A j \in 1..(Sent[i] - 1) : verification.responses[i][j] = 429
  /\ \A i \in DOMAIN verification.results :
       /\ verification.results[i] =
            verification.responses[i][Len(verification.responses[i])]
       /\ verification.results[i] = 429 => Len(verification.responses[i]) = maxRetries + 1
  /\ SumSeq(Sent) <= Len(regions) * (maxRetries + 1)

\* C25: a request is sent again only after a 429 and at most maxRetries
\* times, so it makes at most maxRetries + 1 attempts and then returns the
\* failure with code 429; any other failure is returned without a retry; a
\* verification ends after at most 3 regions x 4 attempts
C25_RetriesBounded ==
  /\ []AttemptsBounded
  /\ (verification.phase = "requesting") ~> (verification.phase = "done")

\* every region answered 429 four times and the verification returned
C25_Witness ==
  /\ verification.phase = "done"
  /\ verification.responses =
       <<<<429, 429, 429, 429>>, <<429, 429, 429, 429>>, <<429, 429, 429, 429>>>>
  /\ verification.results = <<429, 429, 429>>

----------------------------------------------------------------------------
(* C26 *)

\* positions of the matches without a forward link
Finals(matches) == {i \in DOMAIN matches : matches[i].nextMatchId = Null}

TotalStagesIsLog2 ==
  \A tid \in DOMAIN tournaments :
    LET t == tournaments[tid]
    IN /\ t.teamCount \in {4, 8, 16}
       /\ Pow2(t.totalStages) = t.teamCount
       /\ t.status \in {"active", "completed"} =>
            /\ Cardinality(Finals(t.matches)) = 1
            /\ \A i \in Finals(t.matches) :
                 /\ t.matches[i].stage = t.totalStages
                 /\ t.status = "completed" <=> t.matches[i].status = "completed"

\* C26: totalStages is log2 of the capacity (2, 3, 4 for 4, 8, 16 teams), no
\* operation changes it after creation, and it is the stage of the one match
\* of the bracket that has no forward link, so that the tournament is
\* completed exactly when that match is
C26_TotalStages ==
  /\ []TotalStagesIsLog2
  /\ [][\A tid \in (DOMAIN tournaments) \cap (DOMAIN tournaments') :
          tournaments'[tid].totalStages = tournaments[tid].totalStages]_vars

\* a completed tournament of 8 teams: three stages, the final in stage 3
C26_Witness ==
  \E tid \in DOMAIN tournaments :
    LET t == tournaments[tid]
    IN /\ t.teamCount = 8
       /\ t.totalStages = 3
       /\ t.status = "completed"
       /\ \E i \in Finals(t.matches) :
            t.matches[i].stage = 3 /\ t.matches[i].status = "completed"

----------------------------------------------------------------------------
(* C27 *)

\* the slots of the match at position n after the winner was seated
\* first-come: home if it was empty, else away if that was empty
SeatedFirstCome(before, after, winnerId) ==
  IF before.homeTeamId = Null
    THEN after.homeTeamId = winnerId /\ after.awayTeamId = before.awayTeamId
  ELSE IF before.awayTeamId = Null
    THEN after.awayTeamId = winnerId /\ after.homeTeamId = before.homeTeamId
  ELSE after.homeTeamId = before.homeTeamId /\ after.awayTeamId = before.awayTeamId

SlotsStep(old, new) ==
  \A i \in (DOMAIN old) \cap (DOMAIN new) :
    /\ old[i].homeTeamId # Null => new[i].homeTeamId = old[i].homeTeamId
    /\ old[i].awayTeamId # Null => new[i].awayTeamId = old[i].awayTeamId
    /\ (/\ old[i].status # "completed"
        /\ new[i].status = "completed"
        /\ new[i].nextMatchId # Null) =>
         LET n == FindById(new, new[i].nextMatchId)
         IN n # 0 /\ SeatedFirstCome(old[n], new[n], new[i].winnerId)

\* C27: when a match with a forward link completes, its winner goes into the
\* home slot of the target if that is empty, else into the away slot if that
\* is empty (the feeder reported first sits home, the second away), and no
\* operation overwrites or clears a slot that holds a team
C27_FirstComeSlots ==
  [][\A tid \in (DOMAIN tournaments) \cap (DOMAIN tournaments') :
       tournaments'[tid] # tournaments[tid] =>
         SlotsStep(tournaments[tid].matches, tournaments'[tid].matches)]_vars

\* a match of stage 2 whose home team won the feeder at the even position and
\* whose away team won the feeder at the odd position: the feeders were
\* reported in reverse order
C27_Witness ==
  \E tid \in DOMAIN tournaments :
    LET matches == tournaments[tid].matches
    IN \E n, i, j \in DOMAIN matches :
         /\ matches[n].stage = 2
         /\ matches[i].nextMatchId = matches[n].id
         /\ matches[j].nextMatchId = matches[n].id
         /\ matches[i].stagePosition < matches[j].stagePosition
         /\ matches[i].status = "completed"
         /\ matches[j].status = "completed"
         /\ matches[n].homeTeamId = matches[j].winnerId
         /\ matches[n].awayTeamId = matches[i].winnerId

----------------------------------------------------------------------------
(* C28 *)

\* the teams seated in a match
Seated(match) == {match.homeTeamId, match.awayTeamId} \ {Null}

\* number of occupied slots of a match
SeatCount(match) ==
  (IF match.homeTeamId # Null THEN 1 ELSE 0) + (IF match.awayTeamId # Null THEN 1 ELSE 0)

\* positions of the matches whose forward link points at match n
Feeders(matches, n) == {i \in DOMAIN matches : matches[i].nextMatchId = matches[n].id}

LoserOf(match) ==
  IF match.winnerId = match.homeTeamId THEN match.awayTeamId ELSE match.homeTeamId

BracketSeating(t) ==
  LET matches == t.matches
      teamIds == {t.teams[k].id : k \in DOMAIN t.teams}
  IN /\ \A n \in DOMAIN matches :
          /\ Seated(matches[n]) \subseteq teamIds
          /\ matches[n].stage >= 2 =>
               LET done == {i \in Feeders(matches, n) : matches[i].status = "completed"}
               IN /\ Cardinality(Feeders(matches, n)) = 2
                  /\ Seated(matches[n]) = {matches[i].winnerId : i \in done}
                  /\ SeatCount(matches[n]) = Cardinality(done)
     /\ \A n, k \in DOMAIN matches :
          /\ matches[n].stage = matches[k].stage =>
               /\ n # k => Seated(matches[n]) \cap Seated(matches[k]) = {}
               /\ matches[n].homeTeamId # Null =>
                    matches[n].homeTeamId # matches[k].awayTeamId
          /\ (matches[n].status = "completed" /\ matches[k].stage > matches[n].stage) =>
               LoserOf(matches[n]) \notin Seated(matches[k])

\* C28: in an active or completed tournament the teams seated in a match of
\* stage >= 2 are exactly the winners of its completed feeders, every team
\* reference is the id of a team of the tournament, no team sits in two slots
\* of one stage, and the loser of a match sits in no match of a later stage
C28_BracketSeating ==
  \A tid \in DOMAIN tournaments :
    tournaments[tid].status \in {"active", "completed"} => BracketSeating(tournaments[tid])

\* a completed tournament of 8 teams whose final seats the winners of both
\* semifinals
C28_Witness ==
  \E tid \in DOMAIN tournaments :
    LET t == tournaments[tid]
    IN /\ t.teamCount = 8
       /\ t.status = "completed"
       /\ \E n \in DOMAIN t.matches :
            /\ t.matches[n].stage = 3
            /\ SeatCount(t.matches[n]) = 2
            /\ \A i \in Feeders(t.matches, n) :
                 t.matches[i].winnerId \in Seated(t.matches[n])

----------------------------------------------------------------------------
(* C29 *)

\* getReadyMatches (353-358) of a tournament: positions of the ready matches
ReadyMatches(t) == {i \in DOMAIN t.matches : t.matches[i].status = "ready"}

\* C29: an active tournament always has a ready match, and a ready match
\* has both teams seated, so a report with a valid score succeeds: the
\* bracket never stands with pending and completed matches only
C29_ReadyMatchExists ==
  \A tid \in DOMAIN tournaments :
    tournaments[tid].status = "active" =>
      /\ ReadyMatches(tournaments[tid]) # {}
      /\ \A i \in ReadyMatches(tournaments[tid]) :
           ReportError(tid, tournaments[tid].matches[i].id, 13, 7) = Ok

\* an active tournament of 8 teams whose only ready match is the final
C29_Witness ==
  \E tid \in DOMAIN tournaments :
    LET t == tournaments[tid]
    IN /\ t.teamCount = 8
       /\ t.status = "active"
       /\ Cardinality(ReadyMatches(t)) = 1
       /\ \A i \in ReadyMatches(t) : t.matches[i].stage = t.totalStages

----------------------------------------------------------------------------
(* C30 *)

\* C30: a call of create, startRegistration, registerTeam, startTournament
\* or reportMatchResult that fails (not found, wrong status, capacity
\* exceeded, duplicate name, incomplete roster, invalid score, unassigned
\* match, already completed) leaves the whole registry in memory as it was
\* and writes nothing to storage
C30_FailureChangesNothing ==
  [][lastResult'.error # Ok =>
       /\ tournaments' = tournaments
       /\ stored' = stored]_vars

\* a report refused as already completed while the file, after an earlier
\* failed write, does not hold what the memory holds: the refused call wrote
\* nothing
C30_Witness ==
  /\ lastResult = Result("report", "AlreadyCompleted")
  /\ writable
  /\ TheGuild \in DOMAIN stored
  /\ stored[TheGuild] # list(tournaments, TheGuild)

----------------------------------------------------------------------------
(* C31 *)

\* champion and runner-up that checkTournamentProgress reads off a tournament
Podium(tournament) ==
  LET status == checkTournamentProgress(tournament).status
  IN <<status.champion, status.runnerUp>>

\* reportMatchResult refuses every call on a tournament that is not active
RefusedUnlessActive ==
  \A tid \in DOMAIN tournaments :
    tournaments[tid].status # "active" =>
      \A mid \in MatchIdInputs(tid) : \A score \in ReportScores :
        ReportError(tid, mid, score[1], score[2]) # Ok

\* C31: a report succeeds only while the tournament is active: against a
\* draft, registration or completed tournament it fails and changes nothing,
\* so the matches of a completed tournament, and with them the champion and
\* the runner-up read off its final, cannot change through a report
C31_ReportOnlyWhileActive ==
  /\ []RefusedUnlessActive
  /\ [][lastResult'.op = "report" =>
          /\ \A tid \in DOMAIN tournaments :
               tournaments[tid].status # "active" =>
                 /\ tid \in DOMAIN tournaments'
                 /\ tournaments'[tid] = tournaments[tid]
          /\ lastResult'.error = Ok =>
               \E tid \in DOMAIN tournaments :
                 /\ tournaments[tid].status = "active"
                 /\ tournaments'[tid] # tournaments[tid]
          /\ lastResult'.error # Ok =>
               /\ tournaments' = tournaments
               /\ stored' = stored
               /\ progress' = progress]_vars

\* a report was refused on a completed tournament of 8 teams whose champion
\* stands
C31_Witness ==
  \E tid \in DOMAIN tournaments :
    /\ tournaments[tid].status = "completed"
    /\ tournaments[tid].teamCount = 8
    /\ lastResult = Result("report", "NotActive")
    /\ progress.tournamentId = tid
    /\ progress.champion = Podium(tournaments[tid])[1]
    /\ progress.champion # NoName

----------------------------------------------------------------------------
(* C32 *)

\* the errors of reportMatchResult in the order of its checks
ReportChecks ==
  <<"InvalidScore", "NotFound", "NotActive", "MatchNotFound", "AlreadyCompleted",
    "TeamsNotAssigned">>

\* whether the k-th precondition of a report is broken; a precondition about
\* something that does not exist counts as broken
Broken(k, tid, mid, h, a) ==
  LET known == tid \in DOMAIN tournaments
      here == IF known
                THEN {i \in DOMAIN tournaments[tid].matches :
                        tournaments[tid].matches[i].id = mid}
                ELSE {}
  IN CASE k = 1 -> ~AcceptRule(h, a)
       [] k = 2 -> ~known
       [] k = 3 -> ~known \/ tournaments[tid].status # "active"
       [] k = 4 -> here = {}
       [] k = 5 -> here = {} \/
                   \E i \in here : tournaments[tid].matches[i].status = "completed"
       [] k = 6 -> here = {} \/
                   \E i \in here : \/ tournaments[tid].matches[i].homeTeamId = Null
                                   \/ tournaments[tid].matches[i].awayTeamId = Null

\* the error of the first broken precondition, Ok when none is broken
FirstBroken(tid, mid, h, a) ==
  LET broken == {k \in DOMAIN ReportChecks : Broken(k, tid, mid, h, a)}
  IN IF broken = {} THEN Ok
     ELSE ReportChecks[CHOOSE k \in broken : \A j \in broken : k <= j]

\* C32: reportMatchResult returns the error of the first precondition that
\* is broken, in the order invalid score, tournament not found, tournament
\* not active, match not found, match already completed, teams not
\* assigned; an invalid score on a completed match or an unknown tournament
\* gives InvalidScore
C32_CheckOrder ==
  \A tid \in TournamentIds : \A mid \in MatchIdInputs(tid) : \A score \in ReportScores :
    ReportError(tid, mid, score[1], score[2]) = FirstBroken(tid, mid, score[1], score[2])

\* an invalid score was refused as such while the registry holds a completed
\* match, for which the same score is refused as invalid too
C32_Witness ==
  /\ lastResult = Result("report", "InvalidScore")
  /\ \E tid \in DOMAIN tournaments : \E i \in DOMAIN tournaments[tid].matches :
       /\ tournaments[tid].matches[i].status = "completed"
       /\ ReportError(tid, tournaments[tid].matches[i].id, 13, 12) = "InvalidScore"
       /\ ReportError(UnknownTournamentId, UnknownMatchId, 13, 12) = "InvalidScore"

----------------------------------------------------------------------------
(* C33 *)

\* the five diagnoses in the order in which they are tried, each with the
\* pairs it is worded for
DiagnosisOrder ==
  <<"draw", "needs-overtime", "not-finished", "overtime-gap", "invalid">>

DiagnosisApplies(k, a, b) ==
  CASE k = 1 -> a = b
    [] k = 2 -> {a, b} = {13, 12}
    [] k = 3 -> Max(a, b) < 13
    [] k = 4 -> Min(a, b) >= 12 /\ Max(a, b) - Min(a, b) = 1
    [] k = 5 -> TRUE

FirstDiagnosis(a, b) ==
  DiagnosisOrder[CHOOSE k \in DOMAIN DiagnosisOrder :
                   /\ DiagnosisApplies(k, a, b)
                   /\ \A j \in 1..(k - 1) : ~DiagnosisApplies(j, a, b)]

\* C33: for every pair in 0..50 that the score rule rejects the diagnosis
\* is the first that applies of: draw (a = b), needs-overtime ({13, 12}),
\* not-finished (max < 13), overtime-gap (min >= 12, gap 1), invalid; and
\* invalid is given exactly when max >= 14 and min <= 11
C33_ScoreDiagnosis ==
  (ScoreEvaluated /\ ~scoreOut.valid) =>
    /\ scoreOut.diagnosis \in {DiagnosisOrder[k] : k \in DOMAIN DiagnosisOrder}
    /\ scoreOut.diagnosis = FirstDiagnosis(rounds1, rounds2)
    /\ scoreOut.diagnosis = "invalid" <=>
         (Max(rounds1, rounds2) >= 14 /\ Min(rounds1, rounds2) <= 11)
    /\ (rounds1 = 12 /\ rounds2 = 12) => scoreOut.diagnosis = "draw"

\* 12-13 evaluated: rejected, and overtime is asked for
C33_Witness ==
  /\ ScoreEvaluated
  /\ rounds1 = 12
  /\ rounds2 = 13
  /\ ~scoreOut.valid
  /\ scoreOut.diagnosis = "needs-overtime"

----------------------------------------------------------------------------
(* C34 *)

\* records that agree on every field outside fields
SameExcept(old, new, fields) ==
  /\ DOMAIN new = DOMAIN old
  /\ \A f \in (DOMAIN old) \ fields : new[f] = old[f]

\* number of team slots in which two versions of a match differ
SlotsChanged(old, new) ==
  (IF new.homeTeamId # old.homeTeamId THEN 1 ELSE 0) +
  (IF new.awayTeamId # old.awayTeamId THEN 1 ELSE 0)

\* a successful report took tournament old to new: idx is the reported
\* match; matchFields and tournamentFields are what the report may change
\* of the reported match and of the tournament
ReportFrame(old, new, idx, matchFields, tournamentFields) ==
  /\ old.matches[idx].status # "completed"
  /\ new.matches[idx].status = "completed"
  /\ SameExcept(old.matches[idx], new.matches[idx], matchFields)
  /\ \A j \in (DOMAIN old.matches) \ {idx} :
       \/ new.matches[j] = old.matches[j]
       \/ /\ old.matches[j].id = old.matches[idx].nextMatchId
          /\ SameExcept(old.matches[j], new.matches[j],
                        {"homeTeamId", "awayTeamId", "status"})
          /\ SlotsChanged(old.matches[j], new.matches[j]) <= 1
  /\ SameExcept(old, new, {"matches"} \cup tournamentFields)
  /\ DOMAIN new.matches = DOMAIN old.matches

FramedReport(matchFields, tournamentFields) ==
  lastResult' = Result("report", Ok) =>
    /\ DOMAIN tournaments' = DOMAIN tournaments
    /\ \E tid \in DOMAIN tournaments :
         /\ \A uid \in (DOMAIN tournaments) \ {tid} : tournaments'[uid] = tournaments[uid]
         /\ \E idx \in DOMAIN tournaments[tid].matches :
              ReportFrame(tournaments[tid], tournaments'[tid], idx,
                          matchFields, tournamentFields)

----------------------------------------------------------------------------
(* C38 *)

\* the matches of tournament t whose stage is its currentStage field
MatchesOfCurrentStage(t) == SelectSeq(t.matches, LAMBDA m : m.stage = t.currentStage)

\* C38: for an active tournament getCurrentStageMatches returns exactly the
\* matches whose stage is the currentStage field, which is the lowest stage
\* with a match that is not completed; for a completed tournament it
\* returns the empty list while currentStage stays at totalStages
C38_CurrentStageMatches ==
  \A tid \in DOMAIN tournaments :
    LET t == tournaments[tid]
        current == getCurrentStageMatches(tournaments, tid)
    IN /\ t.status = "active" =>
            /\ current = MatchesOfCurrentStage(t)
            /\ current # <<>>
            /\ OpenStages(t) # {}
            /\ \A s \in OpenStages(t) : t.currentStage <= s
            /\ t.currentStage \in OpenStages(t)
       /\ t.status = "completed" =>
            /\ current = <<>>
            /\ t.currentStage = t.totalStages

\* an active tournament of 8 teams in its second stage, one semifinal done:
\* the query returns the two semifinals
C38_Witness ==
  \E tid \in DOMAIN tournaments :
    LET t == tournaments[tid]
        current == getCurrentStageMatches(tournaments, tid)
    IN /\ t.status = "active"
       /\ t.teamCount = 8
       /\ t.currentStage = 2
       /\ Len(current) = 2
       /\ \E i, j \in DOMAIN current :
            current[i].status = "completed" /\ current[j].status = "ready"

----------------------------------------------------------------------------
(* C35 *)

\* the report calls that have not returned yet
ReportsUnderWay == {c \in inflight : c.op = "report"}

\* the match a report call wrote is completed with the scores of that call
\* and the winner they give
ReportKept(call) ==
  /\ call.tournamentId \in DOMAIN tournaments
  /\ \E i \in DOMAIN tournaments[call.tournamentId].matches :
       LET m == tournaments[call.tournamentId].matches[i]
       IN /\ m.id = call.arg[1]
          /\ m.status = "completed"
          /\ m.homeRounds = call.arg[2]
          /\ m.awayRounds = call.arg[3]
          /\ m.winnerId = IF call.arg[2] > call.arg[3] THEN m.homeTeamId ELSE m.awayTeamId

\* a match both of whose feeders are completed holds both winners and is
\* ready or completed
TargetsReady(t) ==
  \A n \in DOMAIN t.matches :
    (/\ t.matches[n].stage >= 2
     /\ \A i \in Feeders(t.matches, n) : t.matches[i].status = "completed") =>
      /\ SeatCount(t.matches[n]) = 2
      /\ t.matches[n].homeTeamId # t.matches[n].awayTeamId
      /\ t.matches[n].status \in {"ready", "completed"}

NoReportLost ==
  /\ \A call \in ReportsUnderWay : ReportKept(call)
  /\ \A tid \in DOMAIN tournaments :
       tournaments[tid].status \in {"active", "completed"} =>
         /\ BracketSeating(tournaments[tid])
         /\ TargetsReady(tournaments[tid])

\* C35: when reports on different matches of one tournament overlap at
\* their awaits no update is lost in memory: each reported match is and
\* stays completed with the scores and the winner of its own report, and a
\* match both of whose feeders were reported holds both winners in distinct
\* slots and is ready, as after the same reports made one after the other
C35_NoLostReport ==
  /\ []NoReportLost
  /\ [][\A tid \in (DOMAIN tournaments) \cap (DOMAIN tournaments') :
          \A i \in (DOMAIN tournaments[tid].matches)
                     \cap (DOMAIN tournaments'[tid].matches) :
            tournaments[tid].matches[i].status = "completed" =>
              tournaments'[tid].matches[i] = tournaments[tid].matches[i]]_vars

\* the reports of both feeders of the final are suspended at the same time,
\* neither has written the file, and the final is ready with both winners
C35_Witness ==
  \E tid \in DOMAIN tournaments :
    LET t == tournaments[tid]
    IN /\ t.status = "active"
       /\ Cardinality({c \in ReportsUnderWay : c.tournamentId = tid}) = 2
       /\ \E n \in DOMAIN t.matches :
            /\ t.matches[n].stage = 2
            /\ t.matches[n].status = "ready"
            /\ SeatCount(t.matches[n]) = 2
            /\ \A i \in Feeders(t.matches, n) :
                 \E c \in ReportsUnderWay : c.arg[1] = t.matches[i].id
       /\ TheGuild \in DOMAIN stored
       /\ \A i \in DOMAIN stored[TheGuild][tid].matches :
            stored[TheGuild][tid].matches[i].status # "completed"

----------------------------------------------------------------------------
(* C36 *)

\* C36: when state-mutating operations on tournaments of one guild overlap
\* at their storage awaits, then once all of them have returned, with no
\* write failure, the file of the guild holds the tournaments the memory
\* holds: the write of the earlier mutation never lands after, and over,
\* the write that carries the later state
C36_LastWriteIsLatest ==
  (inflight = {} /\ writable) =>
    \A g \in GuildsInMemory :
      /\ g \in DOMAIN stored
      /\ stored[g] = list(tournaments, g)

\* the part of C36 that the code keeps: what a call hands to fs.writeFile
\* is the state of the guild's tournaments at the time of its
\* JSON.stringify, never a mixture
C36_WritesAreSnapshots ==
  [][\A call \in inflight :
       Serialize(call) =>
         \E c \in inflight' :
           /\ c.phase = "serialized"
           /\ c.op = call.op
           /\ c.arg = call.arg
           /\ \A id \in call.listed : c.data[id] = tournaments[id]]_vars

\* both registrations have returned and the file holds one team where the
\* memory holds two
C36_StaleFile ==
  /\ inflight = {}
  /\ lastResult = Result("registerTeam", Ok)
  /\ \E tid \in DOMAIN tournaments :
       /\ Len(tournaments[tid].teams) = 2
       /\ TheGuild \in DOMAIN stored
       /\ tid \in DOMAIN stored[TheGuild]
       /\ Len(stored[TheGuild][tid].teams) = 1

\* the users a Riot ID is linked to in a guild
LinkedUsers(guildId, riotId) ==
  {discordId \in DOMAIN guildPlayers[guildId] :
     guildPlayers[guildId][discordId].riotId = riotId}

\* a user has one profile in a guild, their own: the map is keyed by the user
OneRiotIdPerUser ==
  \A guildId \in DOMAIN guildPlayers :
    \A discordId \in DOMAIN guildPlayers[guildId] :
      guildPlayers[guildId][discordId].discordId = discordId

OneUserPerRiotId ==
  \A guildId \in DOMAIN guildPlayers :
    \A riotId \in RiotIds : Cardinality(LinkedUsers(guildId, riotId)) <= 1

\* C37: within one guild a Riot ID is linked to at most one user and a user
\* has at most one linked Riot ID, whatever player commands overlapped at
\* the verification await
C37_OneLinkEachWay == OneUserPerRiotId /\ OneRiotIdPerUser

\* two register commands for one Riot ID in one guild were suspended
\* together, both have returned, and the Riot ID is linked to both users
C37_SharedRiotId ==
  /\ registering = {}
  /\ lastResult = Result("register", Ok)
  /\ \E guildId \in DOMAIN guildPlayers : \E riotId \in RiotIds :
       LinkedUsers(guildId, riotId) = DiscordIds

====
